---- MODULE Spec2Model ----
(***************************************************************************)
(* Verification model of the tutorial snippets of code-in-typescript.      *)
(* Every snippet is a standalone program; each gets its own specification  *)
(* (SpecPad, SpecBank, ...) over the module's variables, the variables of  *)
(* the other snippets staying at their idle value.                         *)
(***************************************************************************)
EXTENDS Integers, Sequences, FiniteSets, TLC

VARIABLES
    padIn,      \* customPadStart: the receiver and the arguments of the call
    padPc,      \* customPadStart: "call" before the call, "returned" after
    padOut      \* customPadStart: the returned string

VARIABLES
    bankCls,    \* bank snippets: which class the script instantiates
    kBalance,   \* BankOfKigali._accountBalance
    aBalance,   \* BankAccount._balance
    bankLast,   \* the last setter call: its name, amount, the balance before,
                \* whether it threw, and what it logged
    bankHist    \* the setter calls made so far, in order

VARIABLES
    stItems,    \* Stack<T>.items; an element carries the number of the push
                \* that put it there, which tells equal values apart
    stPushed,   \* history: the values pushed so far, in push order
    stPopped,   \* history: the numbers of the pushes popped so far
    stLast      \* the last method call and what it returned

VARIABLES
    formHeap,   \* form snippet: the objects allocated so far; a reference
                \* is an index into this sequence
    formState,  \* the reference held by `let formState` / `const loginForm`
    formLast,   \* the last handleFormChange call, with the heap before it
    storeHeap,  \* Store snippet: the objects allocated so far
    storeState, \* Store<T>.state, a reference
    storeLast   \* the last Store.update call, with the heap before it

VARIABLES
    permOwn,    \* PermissionManager: the own properties assigned so far
    permLast    \* the last verifyPermission call and its outcome

VARIABLES
    paPc,       \* Promise.all demo: "script" before the script ran, "loop" after
    paRandom,   \* Math.random() of promise_3, in units of 1/RandomGrain
    paPromise,  \* the state and value of every promise of the demo
    paValues,   \* Promise.all: the values collected so far, by input index
    paRemaining,\* Promise.all: the inputs not yet fulfilled
    paMicro,    \* the microtask queue: the promises whose reaction is due
    paTimers,   \* the pending setTimeout timers
    paNow,      \* the time of the last timer fired, in ms
    paRuns      \* how often the .then and the .catch handler have run

VARIABLES
    frPc,       \* fetchWithRetry: "call" before the call, "running" after
    frRetries,  \* the argument retries
    frBackoff,  \* the variable backoff, doubled at every scheduled retry
    frBackoffArg, \* the backoff the call was given (history)
    frN,        \* the argument n of the attempt in progress
    frFetch,    \* TRUE while the fetch of the attempt in progress is pending
    frTimer,    \* the delay of the pending setTimeout, -1 when none
    frPromise,  \* the state and value of the promise returned
    frAttempts, \* history: the outcome of every fetch so far, in order
    frWaits     \* history: the delay of every timer set so far, in order

VARIABLES
    sqPc,       \* sequentialOperations: "call" before the call, "running" after
    sqCount,    \* the number of operations passed
    sqLink,     \* the promises of the reduce: sqLink[1] is Promise.resolve([]),
                \* sqLink[i + 1] the chain after operation i
    sqOp,       \* the promise returned by each operation, "idle" before its call
    sqStarted   \* history: the operations called so far, in order

VARIABLES
    ftPc,       \* fetchWithTimeout: "call" before the call, "running" after
    ftTimeout,  \* the argument timeout, in ms
    ftFetch,    \* the fetch: "pending", "responded" (response.json() pending) or "done"
    ftTimer,    \* TRUE while the timer of timeoutPromise is pending
    ftInput,    \* the two promises given to Promise.race
    ftRace,     \* the promise Promise.race returned
    ftMicro,    \* the microtask queue: the inputs whose race reaction is due
    ftNow,      \* the time of the timer when it has fired, in ms
    ftOrder     \* history: the inputs in the order in which they settled

VARIABLES
    msValue,    \* Measurement._value
    msLast      \* the last use of the accessor: its input, whether it threw,
                \* and the number of assignments so far

VARIABLES
    fuCalls     \* the calls of fetchUserData / fetchUserDataAsync made so far:
                \* argument, events in order, pending timer, promise returned

VARIABLES
    dvCall      \* the last call of divideSafely: its arguments and the
                \* invocations of its callback, in order

VARIABLES
    exPc,       \* "idle", "script" (before the snippet runs) or "loop"
    exRandom,   \* random_num, in units of 1/RandomGrain
    exPromise,  \* examplePromise, the promise of .then, the promise of .catch
    exMicro,    \* the microtask queue: promises whose reaction is due
    exRuns,     \* how many times each handler has run
    exLog       \* the console output

VARIABLES
    flHeap,     \* the Vehicle objects created so far; a reference is an index
    flFleet,    \* FleetManager.vehicles: references, in array order
    flAdded,    \* the references passed to addVehicle, in call order (history)
    flLast      \* the last operation: what it moved and skipped, the statuses
                \* it wrote, what it returned, whether it threw

VARIABLES
    tkTruck,    \* a DeliveryTruck
    tkLast,     \* the last call on it: the weight, currentCargo before the
                \* call, whether the call threw
    tkLoads     \* the number of loadCargo calls so far

VARIABLES
    cfInstance, \* Configuration.instance: <<>> while undefined, else <<ref>>
    cfHeap,     \* the Configuration objects constructed; a reference is an index
    cfHolders,  \* the variables of the callers: <<>> or the reference held
    cfCalls     \* the calls of getInstance so far: the variable assigned,
                \* the reference returned, whether the call constructed

padVars == <<padIn, padPc, padOut>>
bankVars == <<bankCls, kBalance, aBalance, bankLast, bankHist>>

stackVars == <<stItems, stPushed, stPopped, stLast>>

formVars == <<formHeap, formState, formLast>>
storeVars == <<storeHeap, storeState, storeLast>>
permVars == <<permOwn, permLast>>
frVars == <<frPc, frRetries, frBackoff, frBackoffArg, frN, frFetch, frTimer, frPromise, frAttempts, frWaits>>
sqVars == <<sqPc, sqCount, sqLink, sqOp, sqStarted>>
paVars == <<paPc, paRandom, paPromise, paValues, paRemaining, paMicro, paTimers, paNow, paRuns>>

ftVars == <<ftPc, ftTimeout, ftFetch, ftTimer, ftInput, ftRace, ftMicro, ftNow, ftOrder>>

msVars == <<msValue, msLast>>

fuVars == <<fuCalls>>

dvVars == <<dvCall>>

exVars == <<exPc, exRandom, exPromise, exMicro, exRuns, exLog>>

flVars == <<flHeap, flFleet, flAdded, flLast>>

tkVars == <<tkTruck, tkLast, tkLoads>>

cfVars == <<cfInstance, cfHeap, cfHolders, cfCalls>>

vars == <<padVars, bankVars, stackVars, formVars, storeVars, permVars, paVars, frVars, sqVars, ftVars, msVars, fuVars, dvVars, exVars, flVars, tkVars, cfVars>>

(***************************************************************************)
(* Program constants                                                       *)
(***************************************************************************)
DefaultTimeout == 5000
TruckCapacity == 5000
DroneMaxAltitude == 400
DefaultRetries == 3
DefaultBackoff == 300
UserIdLimit == 100  \* fetchWithTimeout: timeout = 5000

(***************************************************************************)
(* Bounds                                                                  *)
(***************************************************************************)
MaxStrLen == 2          \* longest receiver / pad string drawn as an input
MaxTarget == 5          \* largest targetLength drawn as an input
MaxBankOps == 3         \* setter calls made on one bank object
MaxPushes == 4          \* push calls made on one stack
MaxObjects == 4         \* objects allocated by one snippet
MaxRetries == 4         \* largest argument retries of fetchWithRetry
MaxSeqOps == 4          \* longest operations array of sequentialOperations
MaxAssigns == 4
MaxCalls == 2
MaxOperand == 3
MaxVehicles == 2
MaxLoads == 3
MaxGetInstance == 4
RandomGrain == 40       \* Math.random() draws k / RandomGrain, 0 <= k < RandomGrain

Min(a, b) == IF a < b THEN a ELSE b

SeqsUpTo(S, n) == UNION {[1..k -> S] : k \in 0..n}

(***************************************************************************)
(* src/demo/customPadstart.ts                                              *)
(* A string is the sequence of its characters.                             *)
(***************************************************************************)
PadChars == {"7", "0", " "}

DefaultPadString == <<" ">>

\* String.prototype.slice(0, end) for 0 <= end
Slice0(s, end) == SubSeq(s, 1, Min(end, Len(s)))

\* the while loop of lines 13-16: repeated += padString until long enough
RECURSIVE PadRepeat(_, _, _)
PadRepeat(repeated, needed, padString) ==
    IF Len(repeated) < needed
    THEN PadRepeat(repeated \o padString, needed, padString)
    ELSE repeated

\* a plausible slip: the padding is not cut to the needed length
customPadStartNoSlice(str, targetLength, padString) ==
    LET needed == targetLength - Len(str)
    IN  IF needed <= 0 THEN str
        ELSE PadRepeat(<<>>, needed, padString) \o str

customPadStart(str, targetLength, padString) ==
    LET needed == targetLength - Len(str)
    IN  IF needed <= 0 THEN str
        ELSE Slice0(PadRepeat(<<>>, needed, padString), needed) \o str

\* The inputs: padString omitted (given = FALSE) takes the default " ".
\* An empty padString with needed > 0 never leaves the while loop; the
\* inputs are the calls that return.
PadInputs ==
    [str : SeqsUpTo(PadChars, MaxStrLen),
     targetLength : -1..MaxTarget,
     padString : SeqsUpTo(PadChars, MaxStrLen) \ {<<>>},
     given : {TRUE}]
    \cup
    [str : SeqsUpTo(PadChars, MaxStrLen),
     targetLength : -1..MaxTarget,
     padString : {DefaultPadString},
     given : {FALSE}]

PadInit ==
    /\ padIn \in PadInputs
    /\ padPc = "call"
    /\ padOut = <<>>

PadIdle ==
    /\ padIn = [str |-> <<>>, targetLength |-> 0,
                padString |-> DefaultPadString, given |-> FALSE]
    /\ padPc = "idle"
    /\ padOut = <<>>

CallCustomPadStart ==
    /\ padPc = "call"
    /\ padOut' = customPadStart(padIn.str, padIn.targetLength, padIn.padString)
    /\ padPc' = "returned"
    /\ UNCHANGED padIn

(***************************************************************************)
(* JavaScript numbers: the finite ones (integers here), NaN and +-Infinity *)
(***************************************************************************)
Fin(n) == [k |-> "fin", v |-> n]
NaN == [k |-> "nan", v |-> 0]
PosInf == [k |-> "inf", v |-> 1]
NegInf == [k |-> "inf", v |-> -1]

\* Number.isFinite
IsFinite(x) == x.k = "fin"

\* a < b on numbers: false as soon as one side is NaN
NumLt(a, b) ==
    IF a.k = "nan" \/ b.k = "nan" THEN FALSE
    ELSE IF a.k = b.k THEN a.v < b.v
    ELSE IF a.k = "inf" THEN a.v < 0
    ELSE b.v > 0

NumGt(a, b) == NumLt(b, a)
NumLe(a, b) == NumLt(a, b) \/ (a.k # "nan" /\ a = b)

NumNeg(a) == IF a.k = "nan" THEN NaN ELSE [k |-> a.k, v |-> 0 - a.v]

NumAdd(a, b) ==
    IF a.k = "nan" \/ b.k = "nan" THEN NaN
    ELSE IF a.k = "fin" /\ b.k = "fin" THEN Fin(a.v + b.v)
    ELSE IF a.k = "inf" /\ b.k = "inf" THEN (IF a.v = b.v THEN a ELSE NaN)
    ELSE IF a.k = "inf" THEN a
    ELSE b

NumSub(a, b) == NumAdd(a, NumNeg(b))

\* Number(s) for the string literals used as inputs
StringToNumber(s) ==
    CASE s = "500" -> Fin(500)
      [] s = "" -> Fin(0)
      [] s = "-100" -> Fin(-100)
      [] OTHER -> NaN

\* Number(x) for x : number | string
ToNumber(x) == IF x.t = "string" THEN StringToNumber(x.s) ELSE x.n

JsNumber(n) == [t |-> "number", n |-> n, s |-> ""]
JsString(s) == [t |-> "string", n |-> NaN, s |-> s]

(***************************************************************************)
(* src/unnamed/part_009: class BankOfKigali                                *)
(* src/unnamed/part_010: class BankAccount                                 *)
(* A setter maps the balance to [balance, threw, log].                     *)
(***************************************************************************)
Outcome(balance, threw, log) == [balance |-> balance, threw |-> threw, log |-> log]

\* set accountBalance(newAccountBalance)
KigaliSetAccountBalance(accountBalance, newAccountBalance) ==
    LET balance == ToNumber(newAccountBalance)
    IN  IF IsFinite(balance)
        THEN Outcome(balance, FALSE, "")
        ELSE Outcome(accountBalance, TRUE, "Number is not finite and invalid ...")

\* set deposit(amount)
KigaliDeposit(accountBalance, amount) ==
    LET balance == ToNumber(amount)
    IN  IF NumLt(balance, Fin(0))
        THEN Outcome(accountBalance, TRUE, "Amount should be positive")
        ELSE IF IsFinite(balance)
        THEN Outcome(NumAdd(accountBalance, balance), FALSE,
                     "You have successfully Deposited")
        ELSE Outcome(accountBalance, TRUE, "Number is not finite and invalid ...")

\* set withdraw(amount); `this.accountBalance -= balance` reads the getter
\* and assigns through the accountBalance setter
KigaliWithdraw(accountBalance, amount) ==
    LET balance == ToNumber(amount)
    IN  IF NumLt(balance, Fin(0))
        THEN Outcome(accountBalance, FALSE, "Amount should be positive")
        ELSE IF NumGt(balance, accountBalance)
        THEN Outcome(accountBalance, FALSE, "Insufficient Funds!")
        ELSE IF NumLt(balance, accountBalance)
        THEN LET set == KigaliSetAccountBalance(accountBalance,
                            JsNumber(NumSub(accountBalance, balance)))
             IN  IF set.threw THEN set
                 ELSE Outcome(set.balance, FALSE, "you have withdrown the amount: ")
        ELSE Outcome(accountBalance, FALSE, "")

\* set deposit(amount: number)
BankAccountDeposit(balance, amount) ==
    IF NumGt(amount, Fin(0))
    THEN Outcome(NumAdd(balance, amount), FALSE, "Deposited")
    ELSE Outcome(balance, FALSE, "Deposit must be a positive number.")

\* a plausible slip: an amount equal to the balance is refused
BankAccountWithdrawStrict(balance, amount) ==
    IF NumLe(amount, Fin(0))
    THEN Outcome(balance, FALSE, "Withdrawal must be positive.")
    ELSE IF NumGt(amount, balance) \/ amount = balance
    THEN Outcome(balance, FALSE, "Insufficient funds.")
    ELSE Outcome(NumSub(balance, amount), FALSE, "Withdrew")

\* set withdraw(amount: number)
BankAccountWithdraw(balance, amount) ==
    IF NumLe(amount, Fin(0))
    THEN Outcome(balance, FALSE, "Withdrawal must be positive.")
    ELSE IF NumGt(amount, balance)
    THEN Outcome(balance, FALSE, "Insufficient funds.")
    ELSE Outcome(NumSub(balance, amount), FALSE, "Withdrew")

BankNumbers == {Fin(-100), Fin(0), Fin(100), Fin(500), Fin(700), NaN, PosInf, NegInf}
BankStrings == {"500", "", "-100", "abc"}
KigaliAmounts == {JsNumber(n) : n \in BankNumbers} \cup {JsString(s) : s \in BankStrings}

NoCall == [op |-> "none", amount |-> NaN, before |-> Fin(0), threw |-> FALSE, log |-> ""]
Call(op, amount, before, out) ==
    [op |-> op, amount |-> amount, before |-> before, threw |-> out.threw, log |-> out.log]

BankInit ==
    /\ bankCls \in {"BankOfKigali", "BankAccount"}
    /\ kBalance = Fin(0)
    /\ aBalance = Fin(0)
    /\ bankLast = NoCall
    /\ bankHist = <<>>

BankIdle ==
    /\ bankCls = "none"
    /\ kBalance = Fin(0)
    /\ aBalance = Fin(0)
    /\ bankLast = NoCall
    /\ bankHist = <<>>

KigaliCall(op, amount, out) ==
    /\ bankCls = "BankOfKigali"
    /\ Len(bankHist) < MaxBankOps
    /\ kBalance' = out.balance
    /\ bankLast' = Call(op, ToNumber(amount), kBalance, out)
    /\ bankHist' = Append(bankHist, <<op, ToNumber(amount)>>)
    /\ UNCHANGED <<bankCls, aBalance>>

AccountCall(op, amount, out) ==
    /\ bankCls = "BankAccount"
    /\ Len(bankHist) < MaxBankOps
    /\ aBalance' = out.balance
    /\ bankLast' = Call(op, amount, aBalance, out)
    /\ bankHist' = Append(bankHist, <<op, amount>>)
    /\ UNCHANGED <<bankCls, kBalance>>

SetKigaliAccountBalance ==
    \E x \in KigaliAmounts :
        KigaliCall("accountBalance", x, KigaliSetAccountBalance(kBalance, x))

SetKigaliDeposit ==
    \E x \in KigaliAmounts : KigaliCall("deposit", x, KigaliDeposit(kBalance, x))

SetKigaliWithdraw ==
    \E x \in KigaliAmounts : KigaliCall("withdraw", x, KigaliWithdraw(kBalance, x))

SetAccountDeposit ==
    \E x \in BankNumbers : AccountCall("deposit", x, BankAccountDeposit(aBalance, x))

SetAccountWithdraw ==
    \E x \in BankNumbers : AccountCall("withdraw", x, BankAccountWithdraw(aBalance, x))


\* the balance of the object the script works on
BankBalance == IF bankCls = "BankOfKigali" THEN kBalance ELSE aBalance

\* the last call was a withdrawal of an invalid amount: negative, not a
\* finite number, or larger than the balance
InvalidWithdrawal ==
    /\ bankLast.op = "withdraw"
    /\ \/ NumLt(bankLast.amount, Fin(0))
       \/ ~IsFinite(bankLast.amount)
       \/ NumGt(bankLast.amount, bankLast.before)

\* C2 as stated: a withdrawal of an invalid amount throws and leaves the
\* balance unchanged.
C2_InvalidWithdrawThrows ==
    InvalidWithdrawal => bankLast.threw /\ BankBalance = bankLast.before

\* the calls made so far all passed a finite number
FiniteAmounts == \A i \in 1..Len(bankHist) : IsFinite(bankHist[i][2])

BankDemo == <<<<"deposit", Fin(500)>>, <<"withdraw", Fin(100)>>, <<"withdraw", Fin(700)>>>>

\* C7: with finite amounts, BankAccount's deposit adds exactly the amount
\* when it is > 0 and otherwise changes nothing; withdraw subtracts exactly
\* the amount when 0 < amount <= balance and otherwise changes nothing,
\* reporting 'Insufficient funds.' when amount > balance; deposit 500,
\* withdraw 100, withdraw 700 ends with balance 400.
C7_BankAccountArithmetic ==
    bankCls = "BankAccount" /\ FiniteAmounts =>
        LET amount == bankLast.amount.v
            before == bankLast.before.v
        IN  /\ IsFinite(aBalance)
            /\ bankLast.op = "deposit" =>
                  aBalance.v = IF amount > 0 THEN before + amount ELSE before
            /\ bankLast.op = "withdraw" =>
                  /\ aBalance.v = IF 0 < amount /\ amount <= before
                                  THEN before - amount ELSE before
                  /\ (amount > 0 /\ amount > before => bankLast.log = "Insufficient funds.")
            /\ bankHist = BankDemo => aBalance = Fin(400)

\* the documented demo has run
C7_Witness ==
    /\ bankCls = "BankAccount"
    /\ bankHist = BankDemo
    /\ aBalance = Fin(400)
    /\ bankLast.log = "Insufficient funds."

(***************************************************************************)
(* src/unnamed/part_004 lines 274-292: class Stack<T>                      *)
(***************************************************************************)
StackValues == {10, 20}

Returned(op, undefined, value, id) ==
    [op |-> op, undefined |-> undefined, value |-> value, id |-> id, bool |-> FALSE]

\* Array.prototype.push
ArrayPush(items, item) == Append(items, item)

\* a plausible slip: shift() instead of pop()
ArrayShift(items) ==
    IF Len(items) = 0
    THEN [items |-> items, undefined |-> TRUE, item |-> [v |-> 0, id |-> 0]]
    ELSE [items |-> Tail(items), undefined |-> FALSE, item |-> Head(items)]

\* Array.prototype.pop: removes and returns the last element, undefined
\* when the array is empty
ArrayPop(items) ==
    IF Len(items) = 0
    THEN [items |-> items, undefined |-> TRUE, item |-> [v |-> 0, id |-> 0]]
    ELSE [items |-> SubSeq(items, 1, Len(items) - 1), undefined |-> FALSE,
          item |-> items[Len(items)]]

StackInit ==
    /\ stItems = <<>>
    /\ stPushed = <<>>
    /\ stPopped = {}
    /\ stLast = Returned("new", TRUE, 0, 0)

StackIdle ==
    /\ stItems = <<>>
    /\ stPushed = <<>>
    /\ stPopped = {}
    /\ stLast = Returned("idle", TRUE, 0, 0)

StackPush ==
    \E item \in StackValues :
        /\ Len(stPushed) < MaxPushes
        /\ stItems' = ArrayPush(stItems, [v |-> item, id |-> Len(stPushed) + 1])
        /\ stPushed' = Append(stPushed, item)
        /\ stLast' = Returned("push", TRUE, 0, 0)
        /\ UNCHANGED stPopped

StackPop ==
    LET r == ArrayPop(stItems)
    IN  /\ stItems' = r.items
        /\ stPopped' = IF r.undefined THEN stPopped ELSE stPopped \cup {r.item.id}
        /\ stLast' = Returned("pop", r.undefined, r.item.v, r.item.id)
        /\ UNCHANGED stPushed

StackPeek ==
    /\ stLast' = IF Len(stItems) = 0
                 THEN Returned("peek", TRUE, 0, 0)
                 ELSE Returned("peek", FALSE, stItems[Len(stItems)].v,
                               stItems[Len(stItems)].id)
    /\ UNCHANGED <<stItems, stPushed, stPopped>>

StackIsEmpty ==
    /\ stLast' = [Returned("isEmpty", FALSE, 0, 0) EXCEPT !.bool = (Len(stItems) = 0)]
    /\ UNCHANGED <<stItems, stPushed, stPopped>>

\* the pushes that were not popped before the last call
StackLiveBefore ==
    {i \in 1..Len(stPushed) : i \notin stPopped \ {stLast.id}}

\* C3: pop() returns and removes the most recently pushed element that has
\* not yet been popped; on an empty stack pop() returns undefined and the
\* stack stays empty.
C3_StackLifo ==
    /\ stLast.op = "pop" /\ ~stLast.undefined =>
          /\ stLast.id \in StackLiveBefore
          /\ \A i \in StackLiveBefore : i <= stLast.id
          /\ stLast.value = stPushed[stLast.id]
          /\ \A k \in 1..Len(stItems) : stItems[k].id # stLast.id
    /\ stLast.op = "pop" /\ stLast.undefined =>
          /\ StackLiveBefore = {}
          /\ stItems = <<>>
    /\ {stItems[k].id : k \in 1..Len(stItems)} =
          {i \in 1..Len(stPushed) : i \notin stPopped}
    /\ Len(stItems) = Len(stPushed) - Cardinality(stPopped)

\* 10, 20, 10 pushed, and popped twice: the second pop returns 20
C3_Witness ==
    /\ stPushed = <<10, 20, 10>>
    /\ stPopped = {2, 3}
    /\ stLast = Returned("pop", FALSE, 20, 2)
    /\ Len(stItems) = 1

(***************************************************************************)
(* Objects: an object is a function from its own keys to their values; it  *)
(* lives in a heap and is passed by reference.                             *)
(* src/demo/index.ts, src/unnamed/part_007, src/unnamed/part_004 369-371   *)
(***************************************************************************)
\* { ...source }: a fresh object with the own properties of source
ObjectSpread(source) == [k \in DOMAIN source |-> source[k]]

\* target, then the properties of source over it: { ...target, ...source }
ObjectMerge(target, source) ==
    [k \in DOMAIN target \cup DOMAIN source |->
        IF k \in DOMAIN source THEN source[k] ELSE target[k]]

\* { ...obj, [field]: value }
WithProperty(obj, field, value) ==
    [k \in DOMAIN obj \cup {field} |-> IF k = field THEN value ELSE obj[k]]

Alloc(heap, obj) == [heap |-> Append(heap, obj), ref |-> Len(heap) + 1]

\* a plausible slip: Object.assign(formState, {[field]: value}) writes into
\* the object passed in and returns it
handleFormChangeInPlace(heap, state, field, value) ==
    [heap |-> [heap EXCEPT ![state] = WithProperty(heap[state], field, value)],
     ref |-> state]

\* handleFormChange(formState, field, value): the heap after the call and
\* the reference returned
handleFormChange(heap, state, field, value) ==
    Alloc(heap, WithProperty(ObjectSpread(heap[state]), field, value))

FormFields == {"email", "password", "remember"}
FormValues == {"", "jean@email.com", "123@Abc"}

FormCall(op, arg, field, value, result, before) ==
    [op |-> op, arg |-> arg, field |-> field, value |-> value,
     result |-> result, before |-> before]

FormInit ==
    /\ formHeap = <<[k \in {"email", "password"} |-> ""]>>
    /\ formState = 1
    /\ formLast = FormCall("none", 1, "email", "", 1, <<>>)

FormIdle ==
    /\ formHeap = <<>>
    /\ formState = 0
    /\ formLast = FormCall("idle", 0, "email", "", 0, <<>>)

\* const updated = handleFormChange(loginForm, field, value), on any
\* object allocated so far
CallHandleFormChange ==
    \E arg \in 1..Len(formHeap), field \in FormFields, value \in FormValues :
        LET r == handleFormChange(formHeap, arg, field, value)
        IN  /\ Len(formHeap) < MaxObjects
            /\ formHeap' = r.heap
            /\ formLast' = FormCall("handleFormChange", arg, field, value, r.ref, formHeap)
            /\ UNCHANGED formState

\* window.updateFormState: two calls, each result assigned to formState
UpdateFormState ==
    \E email \in FormValues, password \in FormValues :
        LET r1 == handleFormChange(formHeap, formState, "email", email)
            r2 == handleFormChange(r1.heap, r1.ref, "password", password)
        IN  /\ Len(formHeap) + 1 < MaxObjects
            /\ formHeap' = r2.heap
            /\ formState' = r2.ref
            /\ formLast' = FormCall("updateFormState", r1.ref, "password", password,
                                    r2.ref, r1.heap)

\* C4: handleFormChange returns a new object in which field has the given
\* value and every other key has the value it has in formState; the object
\* passed in (like every object that existed) is not mutated.
C4_HandleFormChange ==
    formLast.op \in {"handleFormChange", "updateFormState"} =>
        LET before == formLast.before
            old == before[formLast.arg]
            new == formHeap[formLast.result]
        IN  /\ formLast.result \notin 1..Len(before)
            /\ formLast.result \in 1..Len(formHeap)
            /\ DOMAIN new = DOMAIN old \cup {formLast.field}
            /\ new[formLast.field] = formLast.value
            /\ \A k \in DOMAIN old \ {formLast.field} : new[k] = old[k]
            /\ \A o \in 1..Len(before) : formHeap[o] = before[o]

\* the documented call: loginForm keeps its empty email
C4_Witness ==
    /\ formLast.op = "handleFormChange"
    /\ formLast.arg = 1
    /\ formLast.field = "email"
    /\ formLast.value = "jean@email.com"
    /\ formHeap[formLast.result] =
          [k \in {"email", "password"} |-> IF k = "email" THEN "jean@email.com" ELSE ""]
    /\ formHeap[1] = [k \in {"email", "password"} |-> ""]

(***************************************************************************)
(* src/unnamed/part_004 lines 532-546: class Store<T>                      *)
(***************************************************************************)
StoreKeys == {"name", "age"}
StoreNames == {"Jean", "Ann"}
StoreAges == {21, 22}

\* the objects with keys K: a name under "name", an age under "age"
StoreObjects(K) ==
    {[k \in K |-> IF k = "name" THEN n ELSE a] : n \in StoreNames, a \in StoreAges}

StorePartials == UNION {StoreObjects(K) : K \in SUBSET StoreKeys}

\* a plausible slip: Object.assign(this.state, partial) writes into the
\* object held
StoreUpdateInPlace(heap, state, partial) ==
    [heap |-> [heap EXCEPT ![state] = ObjectMerge(heap[state], partial)], ref |-> state]

\* update(partial): this.state = { ...this.state, ...partial }
StoreUpdate(heap, state, partial) ==
    Alloc(heap, ObjectMerge(ObjectSpread(heap[state]), partial))

\* getState()
StoreGetState == storeHeap[storeState]

StoreCall(op, partial, prev, before) ==
    [op |-> op, partial |-> partial, prev |-> prev, before |-> before]

\* new Store(initialState): the store holds the object passed in
StoreInit ==
    /\ \E initialState \in StoreObjects(StoreKeys) : storeHeap = <<initialState>>
    /\ storeState = 1
    /\ storeLast = StoreCall("new", <<>>, 1, <<>>)

StoreIdle ==
    /\ storeHeap = <<>>
    /\ storeState = 0
    /\ storeLast = StoreCall("idle", <<>>, 0, <<>>)

CallStoreUpdate ==
    \E partial \in StorePartials :
        LET r == StoreUpdate(storeHeap, storeState, partial)
        IN  /\ Len(storeHeap) < MaxObjects
            /\ storeHeap' = r.heap
            /\ storeState' = r.ref
            /\ storeLast' = StoreCall("update", partial, storeState, storeHeap)

\* C8: after update(partial), getState() has partial's value for every key
\* of partial and the previous value for every other key; the state is a new
\* object, and neither the object held before nor the one passed to the
\* constructor is mutated.
C8_StoreUpdate ==
    storeLast.op = "update" =>
        LET before == storeLast.before
            prev == before[storeLast.prev]
            partial == storeLast.partial
        IN  /\ DOMAIN StoreGetState = DOMAIN prev \cup DOMAIN partial
            /\ \A k \in DOMAIN partial : StoreGetState[k] = partial[k]
            /\ \A k \in DOMAIN prev \ DOMAIN partial : StoreGetState[k] = prev[k]
            /\ storeState \notin 1..Len(before)
            /\ \A o \in 1..Len(before) : storeHeap[o] = before[o]
            /\ storeHeap[1] = before[1]

\* the documented call: { name: "Jean", age: 21 } updated with { age: 22 }
C8_Witness ==
    /\ storeLast.op = "update"
    /\ storeLast.prev = 1
    /\ DOMAIN storeLast.partial = {"age"}
    /\ storeLast.partial["age"] = 22
    /\ StoreGetState["name"] = "Jean"
    /\ StoreGetState["age"] = 22
    /\ storeHeap[1]["age"] = 21

(***************************************************************************)
(* src/class-and-inhertances-overriding.md lines 108-138:                  *)
(* class PermissionManager                                                 *)
(* A value is a boolean, a string, a function, an object or undefined.     *)
(***************************************************************************)
JsBool(b) == [t |-> "boolean", b |-> b, name |-> ""]
JsFunction(name) == [t |-> "function", b |-> FALSE, name |-> name]
JsObject(name) == [t |-> "object", b |-> FALSE, name |-> name]
JsStr(s) == [t |-> "string", b |-> FALSE, name |-> s]
JsUndefined == [t |-> "undefined", b |-> FALSE, name |-> ""]

\* what `this[permission]` finds beyond the own properties: the members of
\* PermissionManager.prototype and of Object.prototype
PermInherited ==
    [toString |-> JsFunction("Object.prototype.toString"),
     valueOf |-> JsFunction("Object.prototype.valueOf"),
     __proto__ |-> JsObject("PermissionManager.prototype")]

\* this[permission]: the own property, else the inherited one, else undefined
PermGet(own, permission) ==
    IF permission \in DOMAIN own THEN own[permission]
    ELSE IF permission \in DOMAIN PermInherited THEN PermInherited[permission]
    ELSE JsUndefined

\* !!value
ToBoolean(value) ==
    CASE value.t = "boolean" -> value.b
      [] value.t = "undefined" -> FALSE
      [] value.t = "string" -> value.name # ""
      [] OTHER -> TRUE

PermReturn(value) == [kind |-> "return", value |-> value]
PermThrow == [kind |-> "throw", value |-> JsStr("TypeError")]

\* value(permission): a plain call, `this` is undefined
PermApply(fn, permission) ==
    CASE fn.name = "isCanDeletePosts" ->
            PermReturn(JsBool(permission = "canDeletePosts"))
      [] fn.name = "Object.prototype.toString" ->
            PermReturn(JsStr("[object Undefined]"))
      [] fn.name = "Object.prototype.valueOf" ->
            PermThrow       \* ToObject(undefined) is a TypeError

\* verifyPermission(permission), lines 113-123
verifyPermission(own, permission) ==
    LET value == PermGet(own, permission)
    IN  IF value.t = "function"
        THEN PermApply(value, permission)
        ELSE PermReturn(JsBool(ToBoolean(value)))

PermNames == {"canEditProfile", "canDeletePosts", "canViewAnalytics",
              "toString", "valueOf", "__proto__"}

\* the names the script assigns; an assignment to __proto__ goes to the
\* accessor of Object.prototype and defines no own property
PermAssignable == PermNames \ {"__proto__"}

PermAssigned == {JsBool(TRUE), JsBool(FALSE), JsFunction("isCanDeletePosts")}

PermCall(permission, result) == [op |-> "verifyPermission", permission |-> permission, result |-> result]

PermInit ==
    /\ permOwn = <<>>
    /\ permLast = [op |-> "new", permission |-> "", result |-> PermReturn(JsUndefined)]

PermIdle ==
    /\ permOwn = <<>>
    /\ permLast = [op |-> "idle", permission |-> "", result |-> PermReturn(JsUndefined)]

\* userPermissions[name] = value
PermAssign ==
    \E name \in PermAssignable, value \in PermAssigned :
        /\ permOwn' = WithProperty(permOwn, name, value)
        /\ permLast' = [op |-> "assign", permission |-> name, result |-> PermReturn(value)]

PermVerify ==
    \E permission \in PermNames :
        /\ permLast' = PermCall(permission, verifyPermission(permOwn, permission))
        /\ UNCHANGED permOwn

\* C5: verifyPermission(p) returns false for every permission name p that
\* has not been defined on the manager, and returns the stored boolean for
\* a permission that was assigned a boolean.
C5_UndefinedDenied ==
    permLast.op = "verifyPermission" =>
        LET p == permLast.permission
        IN  /\ p \notin DOMAIN permOwn => permLast.result = PermReturn(JsBool(FALSE))
            /\ (p \in DOMAIN permOwn /\ permOwn[p].t = "boolean") =>
                  permLast.result = PermReturn(permOwn[p])

(***************************************************************************)
(* src/demo/interface.ts lines 42-67: promise_1, promise_2, promise_3 and  *)
(* Promise.all([...]).then(...).catch(...)                                 *)
(* The script runs to completion; then the event loop runs every due       *)
(* microtask before it fires the next timer, the earliest first.           *)
(***************************************************************************)
PaInputs == <<"promise_1", "promise_2", "promise_3">>
PaPromises == {"promise_1", "promise_2", "promise_3", "all", "then", "catch"}

Pending == [state |-> "pending", value |-> <<>>]
Settled(state, value) == [state |-> state, value |-> value]

\* resolve(value) / reject(reason) on promise p: a settled promise stays as
\* it is; a promise that settles queues its reaction. promise_3 settles
\* before Promise.all subscribes, and the subscription queues it then.
Settle(promise, micro, p, state, value) ==
    IF promise[p].state # "pending"
    THEN [promise |-> promise, micro |-> micro]
    ELSE [promise |-> [promise EXCEPT ![p] = Settled(state, value)],
          micro |-> IF p = "catch" THEN micro ELSE Append(micro, p)]

\* a plausible slip: the values are collected in the order of settlement
AllStoreBySettlement(values, index, value) ==
    LET free == CHOOSE i \in 1..Len(values) :
                    /\ values[i] = ""
                    /\ \A j \in 1..(i - 1) : values[j] # ""
    IN  [values EXCEPT ![free] = value]

\* Promise.all stores the value of input number index at that index
AllStore(values, index, value) == [values EXCEPT ![index] = value]

PaIndex(p) == CHOOSE i \in 1..Len(PaInputs) : PaInputs[i] = p

PaInit ==
    /\ paPc = "script"
    /\ paRandom = 0
    /\ paPromise = [p \in PaPromises |-> Pending]
    /\ paValues = <<"", "", "">>
    /\ paRemaining = Len(PaInputs)
    /\ paMicro = <<>>
    /\ paTimers = {}
    /\ paNow = 0
    /\ paRuns = [then |-> 0, catch |-> 0]

PaIdle ==
    /\ paPc = "idle"
    /\ paRandom = 0
    /\ paPromise = [p \in PaPromises |-> Pending]
    /\ paValues = <<"", "", "">>
    /\ paRemaining = Len(PaInputs)
    /\ paMicro = <<>>
    /\ paTimers = {}
    /\ paNow = 0
    /\ paRuns = [then |-> 0, catch |-> 0]

\* lines 42-67, run to completion: two timers are set, promise_3 settles on
\* the random number, Promise.all subscribes to the three inputs
PaScript ==
    \E k \in 0..(RandomGrain - 1) :
        LET s == IF 2 * k > RandomGrain       \* randomNumber > 0.5
                 THEN Settle(paPromise, paMicro, "promise_3", "fulfilled", "value 3")
                 ELSE Settle(paPromise, paMicro, "promise_3", "rejected", "error 3")
        IN  /\ paPc = "script"
            /\ paPc' = "loop"
            /\ paRandom' = k
            /\ paTimers' = {[at |-> 2000, promise |-> "promise_1", value |-> "value 1"],
                            [at |-> 1000, promise |-> "promise_2", value |-> "value 2"]}
            /\ paPromise' = s.promise
            /\ paMicro' = s.micro
            /\ UNCHANGED <<paValues, paRemaining, paNow, paRuns>>

\* the reaction of an input of Promise.all
PaInputReaction ==
    /\ paPc = "loop"
    /\ paMicro # <<>>
    /\ Head(paMicro) \in {"promise_1", "promise_2", "promise_3"}
    /\ LET p == Head(paMicro)
           values == AllStore(paValues, PaIndex(p), paPromise[p].value)
           s == IF paPromise[p].state = "rejected"
                THEN Settle(paPromise, Tail(paMicro), "all", "rejected", paPromise[p].value)
                ELSE IF paRemaining = 1
                THEN Settle(paPromise, Tail(paMicro), "all", "fulfilled", values)
                ELSE [promise |-> paPromise, micro |-> Tail(paMicro)]
       IN  /\ paPromise' = s.promise
           /\ paMicro' = s.micro
           /\ IF paPromise[p].state = "fulfilled"
              THEN paValues' = values /\ paRemaining' = paRemaining - 1
              ELSE UNCHANGED <<paValues, paRemaining>>
    /\ UNCHANGED <<paPc, paRandom, paTimers, paNow, paRuns>>

\* the reaction of the promise of Promise.all: .then((result) => ...) runs
\* on fulfilment; a rejection passes through to the promise .then returned
PaThenReaction ==
    /\ paPc = "loop"
    /\ paMicro # <<>>
    /\ Head(paMicro) = "all"
    /\ LET s == IF paPromise["all"].state = "fulfilled"
                THEN Settle(paPromise, Tail(paMicro), "then", "fulfilled", <<>>)
                ELSE Settle(paPromise, Tail(paMicro), "then", "rejected",
                            paPromise["all"].value)
       IN  /\ paPromise' = s.promise
           /\ paMicro' = s.micro
           /\ paRuns' = IF paPromise["all"].state = "fulfilled"
                        THEN [paRuns EXCEPT !.then = @ + 1]
                        ELSE paRuns
    /\ UNCHANGED <<paPc, paRandom, paValues, paRemaining, paTimers, paNow>>

\* the reaction of the promise .then returned: .catch((error) => ...) runs
\* on rejection; a fulfilment passes through
PaCatchReaction ==
    /\ paPc = "loop"
    /\ paMicro # <<>>
    /\ Head(paMicro) = "then"
    /\ LET s == Settle(paPromise, Tail(paMicro), "catch", "fulfilled", <<>>)
       IN  /\ paPromise' = s.promise
           /\ paMicro' = s.micro
           /\ paRuns' = IF paPromise["then"].state = "rejected"
                        THEN [paRuns EXCEPT !.catch = @ + 1]
                        ELSE paRuns
    /\ UNCHANGED <<paPc, paRandom, paValues, paRemaining, paTimers, paNow>>

\* a plausible slip: a timer fires although reactions are still queued
PaTimerDueAlways(micro) == TRUE

\* a timer only fires once no microtask is due
PaTimerDue(micro) == micro = <<>>

\* the earliest timer fires once no microtask is due: its callback resolves
\* its promise
PaTimer ==
    /\ paPc = "loop"
    /\ PaTimerDue(paMicro)
    /\ \E timer \in paTimers :
          /\ \A other \in paTimers : timer.at <= other.at
          /\ LET s == Settle(paPromise, paMicro, timer.promise, "fulfilled", timer.value)
             IN  /\ paPromise' = s.promise
                 /\ paMicro' = s.micro
          /\ paTimers' = paTimers \ {timer}
          /\ paNow' = timer.at
    /\ UNCHANGED <<paPc, paRandom, paValues, paRemaining, paRuns>>

\* nothing is left to run
PaDone == paPc = "loop" /\ paMicro = <<>> /\ paTimers = {}

PaFulfilled(p) == paPromise[p].state = "fulfilled"
PaRejected(p) == paPromise[p].state = "rejected"

\* C6: the promise of Promise.all is fulfilled only after all three inputs
\* are fulfilled, with their values in input order although promise_2
\* settles before promise_1; it is rejected if any input is rejected;
\* exactly one of the .then and the .catch handler runs, exactly once.
C6_PromiseAll ==
    /\ PaFulfilled("all") =>
          /\ \A i \in 1..Len(PaInputs) : PaFulfilled(PaInputs[i])
          /\ paPromise["all"].value = <<"value 1", "value 2", "value 3">>
    /\ paPromise["promise_1"].state # "pending" => paPromise["promise_2"].state # "pending"
    /\ (\E i \in 1..Len(PaInputs) : PaRejected(PaInputs[i])) /\ PaDone => PaRejected("all")
    /\ PaRejected("all") => \E i \in 1..Len(PaInputs) : PaRejected(PaInputs[i])
    /\ paRuns.then + paRuns.catch <= 1
    /\ paRuns.then = 1 => PaFulfilled("all")
    /\ paRuns.catch = 1 => PaRejected("all")
    /\ PaDone => paRuns.then + paRuns.catch = 1

\* all three fulfilled, promise_2 at 1000 ms and promise_1 at 2000 ms, and
\* the .then handler has run
C6_Witness ==
    /\ PaDone
    /\ paNow = 2000
    /\ PaFulfilled("all")
    /\ paPromise["all"].value = <<"value 1", "value 2", "value 3">>
    /\ paRuns = [then |-> 1, catch |-> 0]

\* C16: when promise_3 rejects, Promise.all fails at once: the .catch
\* handler runs before the 1000 ms timer of promise_2 and the 2000 ms timer
\* of promise_1 fire, and the later fulfilment of promise_1 and promise_2
\* runs no further handler.
C16_FailFast ==
    PaRejected("promise_3") =>
        /\ paRuns.then = 0
        /\ paRuns.catch <= 1
        /\ paRuns.catch = 0 =>
              /\ paNow = 0
              /\ {timer.at : timer \in paTimers} = {1000, 2000}
              /\ paPromise["promise_1"] = Pending /\ paPromise["promise_2"] = Pending
        /\ paNow > 0 \/ PaFulfilled("promise_1") \/ PaFulfilled("promise_2") =>
              /\ paRuns = [then |-> 0, catch |-> 1]
              /\ paPromise["all"] = Settled("rejected", "error 3")
        /\ PaDone =>
              /\ PaFulfilled("promise_1") /\ PaFulfilled("promise_2")
              /\ paRuns = [then |-> 0, catch |-> 1]

\* promise_3 rejected, both timers have fired since, and only the .catch
\* handler has run, once
C16_Witness ==
    /\ PaDone
    /\ PaRejected("promise_3")
    /\ PaFulfilled("promise_1") /\ PaFulfilled("promise_2")
    /\ paNow = 2000
    /\ paRuns = [then |-> 0, catch |-> 1]

(***************************************************************************)
(* src/unnamed/part_011 lines 253-270: fetchWithRetry                      *)
(* fetch fulfils with a response (whatever its HTTP status) or rejects     *)
(* with an error; the k-th fetch yields "response k" or "error k".         *)
(***************************************************************************)
FrStatuses == {200, 404}
FrBackoffs == {DefaultBackoff, 100, 1000}

FrResponse(k, status) == [kind |-> "response", attempt |-> k, status |-> status]
FrError(k) == [kind |-> "error", attempt |-> k, status |-> 0]

\* a plausible slip: the delay grows by the default instead of doubling
FrNextBackoffLinear(backoff) == backoff + DefaultBackoff

\* backoff *= 2
FrNextBackoff(backoff) == backoff * 2

\* a plausible slip: the last retry is given up on
FrGiveUpEarly(n) == n <= 1

\* if (n === 0) { reject(error); return; }
FrGiveUp(n) == n = 0

FrInit ==
    /\ frPc = "call"
    /\ frRetries = 0
    /\ frBackoff = 0
    /\ frBackoffArg = 0
    /\ frN = 0
    /\ frFetch = FALSE
    /\ frTimer = -1
    /\ frPromise = Pending
    /\ frAttempts = <<>>
    /\ frWaits = <<>>

FrIdle ==
    /\ frPc = "idle"
    /\ frRetries = 0
    /\ frBackoff = 0
    /\ frBackoffArg = 0
    /\ frN = 0
    /\ frFetch = FALSE
    /\ frTimer = -1
    /\ frPromise = Pending
    /\ frAttempts = <<>>
    /\ frWaits = <<>>

\* fetchWithRetry(url, retries, backoff): the executor calls
\* attempt(retries), which calls fetch
FrCall ==
    \E retries \in 0..MaxRetries, backoff \in FrBackoffs :
        /\ frPc = "call"
        /\ frPc' = "running"
        /\ frRetries' = retries
        /\ frBackoff' = backoff
        /\ frBackoffArg' = backoff
        /\ frN' = retries
        /\ frFetch' = TRUE
        /\ UNCHANGED <<frTimer, frPromise, frAttempts, frWaits>>

\* the fetch fulfils: .then(resolve)
FrFetchFulfils ==
    \E status \in FrStatuses :
        LET response == FrResponse(Len(frAttempts) + 1, status)
        IN  /\ frPc = "running"
            /\ frFetch
            /\ frFetch' = FALSE
            /\ frAttempts' = Append(frAttempts, response)
            /\ frPromise' = IF frPromise.state = "pending"
                            THEN Settled("fulfilled", response)
                            ELSE frPromise
            /\ UNCHANGED <<frPc, frRetries, frBackoff, frBackoffArg, frN, frTimer, frWaits>>

\* the fetch rejects: .catch(error => ...) rejects at n === 0 and otherwise
\* sets the timer of the next attempt and doubles backoff
FrFetchRejects ==
    LET error == FrError(Len(frAttempts) + 1)
    IN  /\ frPc = "running"
        /\ frFetch
        /\ frFetch' = FALSE
        /\ frAttempts' = Append(frAttempts, error)
        /\ IF FrGiveUp(frN)
           THEN /\ frPromise' = IF frPromise.state = "pending"
                                THEN Settled("rejected", error)
                                ELSE frPromise
                /\ UNCHANGED <<frTimer, frBackoff, frWaits>>
           ELSE /\ frTimer' = frBackoff
                /\ frWaits' = Append(frWaits, frBackoff)
                /\ frBackoff' = FrNextBackoff(frBackoff)
                /\ UNCHANGED frPromise
        /\ UNCHANGED <<frPc, frRetries, frBackoffArg, frN>>

\* the timer fires: attempt(n - 1) calls fetch
FrTimerFires ==
    /\ frPc = "running"
    /\ frTimer >= 0
    /\ frTimer' = -1
    /\ frN' = frN - 1
    /\ frFetch' = TRUE
    /\ UNCHANGED <<frPc, frRetries, frBackoff, frBackoffArg, frPromise, frAttempts,
                 frWaits>>

\* the calls of fetch made so far
FrCalls == Len(frAttempts) + (IF frFetch THEN 1 ELSE 0)

\* C9: with retries >= 0, fetch is called at most retries + 1 times; the
\* promise fulfils with the response of the first successful attempt and
\* no attempt follows a success; it rejects, with the error of the last
\* attempt, only after exactly retries + 1 consecutive failed attempts.
C9_FetchWithRetry ==
    frPc = "running" =>
        /\ FrCalls <= frRetries + 1
        /\ frPromise.state = "fulfilled" =>
              /\ frAttempts[Len(frAttempts)] = frPromise.value
              /\ frPromise.value.kind = "response"
              /\ \A k \in 1..(Len(frAttempts) - 1) : frAttempts[k].kind = "error"
              /\ ~frFetch /\ frTimer = -1
        /\ (\E k \in 1..Len(frAttempts) : frAttempts[k].kind = "response") =>
              frPromise.state = "fulfilled"
        /\ frPromise.state = "rejected" =>
              /\ Len(frAttempts) = frRetries + 1
              /\ \A k \in 1..Len(frAttempts) : frAttempts[k].kind = "error"
              /\ frPromise.value = FrError(frRetries + 1)
              /\ ~frFetch /\ frTimer = -1
        /\ (Len(frAttempts) = frRetries + 1 /\ frAttempts[frRetries + 1].kind = "error") =>
              frPromise.state = "rejected"

\* two failures, then the third fetch succeeds
C9_Witness ==
    /\ frRetries = 3
    /\ Len(frAttempts) = 3
    /\ frPromise = Settled("fulfilled", FrResponse(3, 200))
    /\ frAttempts[1].kind = "error" /\ frAttempts[2].kind = "error"

RECURSIVE Pow2(_)
Pow2(k) == IF k = 0 THEN 1 ELSE 2 * Pow2(k - 1)

\* C17: fetchWithRetry backs off exponentially: the wait before the k-th
\* retry is backoff * 2^(k-1), so the defaults (retries = 3, backoff = 300)
\* wait 300, 600 and 1200 ms.
C17_ExponentialBackoff ==
    frPc = "running" =>
        /\ \A k \in 1..Len(frWaits) : frWaits[k] = frBackoffArg * Pow2(k - 1)
        /\ frTimer >= 0 =>
              /\ frWaits # <<>>
              /\ frTimer = frWaits[Len(frWaits)]
              /\ Len(frWaits) = Len(frAttempts)
        /\ frFetch => Len(frWaits) = Len(frAttempts)
        /\ Len(frWaits) <= frRetries
        /\ frRetries = 3 /\ frBackoffArg = 300 =>
              \A k \in 1..Len(frWaits) : frWaits[k] = <<300, 600, 1200>>[k]

\* the default call has failed three times and waited 300, 600 and 1200 ms
C17_Witness ==
    /\ frPc = "running"
    /\ frRetries = DefaultRetries /\ frBackoffArg = DefaultBackoff
    /\ frWaits = <<300, 600, 1200>>

(***************************************************************************)
(* src/unnamed/part_011 lines 231-240: sequentialOperations                *)
(* reduce chains one .then per operation on Promise.resolve([]); the       *)
(* callback of link i calls operation i and appends its result.            *)
(***************************************************************************)
SqResults == {"A", "B", "C"}

Idle == [state |-> "idle", value |-> <<>>]

\* a plausible slip: the operation is called without waiting for the chain
SqCallbackDueEager(link, op, i) == op[i].state = "idle"

\* the callback of promiseChain.then(chainResults => ...) for operation i is
\* due once the chain before it is fulfilled, and runs once
SqCallbackDue(link, op, i) == link[i].state = "fulfilled" /\ op[i].state = "idle"

\* [...chainResults, currentResult]
SqAppend(chainResults, currentResult) == Append(chainResults, currentResult)

SqInit ==
    /\ sqPc = "call"
    /\ sqCount = 0
    /\ sqLink = <<>>
    /\ sqOp = <<>>
    /\ sqStarted = <<>>

SqIdle ==
    /\ sqPc = "idle"
    /\ sqCount = 0
    /\ sqLink = <<>>
    /\ sqOp = <<>>
    /\ sqStarted = <<>>

\* sequentialOperations(operations): the reduce builds the chain, no
\* operation is called yet
SqCall ==
    \E count \in 0..MaxSeqOps :
        /\ sqPc = "call"
        /\ sqPc' = "running"
        /\ sqCount' = count
        /\ sqLink' = [i \in 1..(count + 1) |->
                        IF i = 1 THEN Settled("fulfilled", <<>>) ELSE Pending]
        /\ sqOp' = [i \in 1..count |-> Idle]
        /\ UNCHANGED sqStarted

\* the callback of link i runs: currentOperation() is called
SqStart ==
    \E i \in 1..sqCount :
        /\ sqPc = "running"
        /\ SqCallbackDue(sqLink, sqOp, i)
        /\ sqOp' = [sqOp EXCEPT ![i] = Pending]
        /\ sqStarted' = Append(sqStarted, i)
        /\ UNCHANGED <<sqPc, sqCount, sqLink>>

\* the promise of operation i fulfils: the next link fulfils with the
\* results so far and this one
SqFulfil ==
    \E i \in 1..sqCount, result \in SqResults :
        /\ sqPc = "running"
        /\ sqOp[i].state = "pending"
        /\ sqOp' = [sqOp EXCEPT ![i] = Settled("fulfilled", result)]
        /\ sqLink' = [sqLink EXCEPT ![i + 1] =
                        Settled("fulfilled", SqAppend(sqLink[i].value, result))]
        /\ UNCHANGED <<sqPc, sqCount, sqStarted>>

\* the promise of operation i rejects: the next link rejects
SqReject ==
    \E i \in 1..sqCount :
        /\ sqPc = "running"
        /\ sqOp[i].state = "pending"
        /\ sqOp' = [sqOp EXCEPT ![i] = Settled("rejected", <<"error">>)]
        /\ sqLink' = [sqLink EXCEPT ![i + 1] = Settled("rejected", <<"error">>)]
        /\ UNCHANGED <<sqPc, sqCount, sqStarted>>

\* a rejected link has no rejection handler in the next .then: the
\* rejection passes on, and the operation of that link is never called
SqPassRejection ==
    \E i \in 1..sqCount :
        /\ sqPc = "running"
        /\ sqLink[i].state = "rejected"
        /\ sqLink[i + 1].state = "pending"
        /\ sqLink' = [sqLink EXCEPT ![i + 1] = sqLink[i]]
        /\ UNCHANGED <<sqPc, sqCount, sqOp, sqStarted>>

\* the promise sequentialOperations returned
SqReturned == sqLink[sqCount + 1]

\* C10: the operations run strictly one after another: operation i + 1 is
\* started only after the promise of operation i has fulfilled, no two are
\* in flight together, and the promise returned fulfils with the results in
\* the order of the operations ([] for an empty list).
C10_Sequential ==
    sqPc = "running" =>
        /\ \A i \in 2..sqCount :
              sqOp[i].state # "idle" => sqOp[i - 1].state = "fulfilled"
        /\ Cardinality({i \in 1..sqCount : sqOp[i].state = "pending"}) <= 1
        /\ sqStarted = [k \in 1..Len(sqStarted) |-> k]
        /\ SqReturned.state = "fulfilled" =>
              /\ Len(SqReturned.value) = sqCount
              /\ \A i \in 1..sqCount :
                    sqOp[i].state = "fulfilled" /\ SqReturned.value[i] = sqOp[i].value
        /\ (\A i \in 1..sqCount : sqOp[i].state = "fulfilled") =>
              SqReturned.state = "fulfilled"
        /\ sqCount = 0 => SqReturned = Settled("fulfilled", <<>>)

\* three operations, fulfilled with B, A, B in that order
C10_Witness ==
    /\ sqPc = "running"
    /\ sqCount = 3
    /\ sqStarted = <<1, 2, 3>>
    /\ SqReturned = Settled("fulfilled", <<"B", "A", "B">>)

(***************************************************************************)
(* src/unnamed/part_011 lines 140-152: timeoutPromise, fetchWithTimeout    *)
(* Promise.race subscribes to both inputs; the reaction to an input that   *)
(* settles runs as a microtask, before the next event.                     *)
(***************************************************************************)
FtTimeouts == {0, 1000, DefaultTimeout}
FtJson == {"user 1", "user 2"}
FtErrors == {"TypeError: Failed to fetch", "AbortError"}

\* a plausible slip: the input that settles last decides
FtRaceSettleLast(race, input) == input

\* the resolving functions of the race promise: a settled promise stays as
\* it is
FtRaceSettle(race, input) == IF race.state # "pending" THEN race ELSE input

FtInit ==
    /\ ftPc = "call"
    /\ ftTimeout = 0
    /\ ftFetch = "none"
    /\ ftTimer = FALSE
    /\ ftInput = [fetch |-> Pending, timeout |-> Pending]
    /\ ftRace = Pending
    /\ ftMicro = <<>>
    /\ ftNow = 0
    /\ ftOrder = <<>>

FtIdle ==
    /\ ftPc = "idle"
    /\ ftTimeout = 0
    /\ ftFetch = "none"
    /\ ftTimer = FALSE
    /\ ftInput = [fetch |-> Pending, timeout |-> Pending]
    /\ ftRace = Pending
    /\ ftMicro = <<>>
    /\ ftNow = 0
    /\ ftOrder = <<>>

\* an input of the race settles: its reaction is queued
FtSettleInput(input, outcome) ==
    /\ ftInput' = [ftInput EXCEPT ![input] = outcome]
    /\ ftMicro' = Append(ftMicro, input)
    /\ ftOrder' = Append(ftOrder, input)

\* fetchWithTimeout(url, timeout): fetch is called and the timer is set
FtCall ==
    \E timeout \in FtTimeouts :
        /\ ftPc = "call"
        /\ ftPc' = "running"
        /\ ftTimeout' = timeout
        /\ ftFetch' = "pending"
        /\ ftTimer' = TRUE
        /\ UNCHANGED <<ftInput, ftRace, ftMicro, ftNow, ftOrder>>

\* the fetch fulfils: .then(response => response.json()) starts the parse
FtFetchResponds ==
    /\ ftPc = "running"
    /\ ftMicro = <<>>
    /\ ftFetch = "pending"
    /\ ftFetch' = "responded"
    /\ UNCHANGED <<ftPc, ftTimeout, ftTimer, ftInput, ftRace, ftMicro, ftNow, ftOrder>>

\* response.json() fulfils with the parsed body
FtJsonParsed ==
    \E json \in FtJson :
        /\ ftPc = "running"
        /\ ftMicro = <<>>
        /\ ftFetch = "responded"
        /\ ftFetch' = "done"
        /\ FtSettleInput("fetch", Settled("fulfilled", json))
        /\ UNCHANGED <<ftPc, ftTimeout, ftTimer, ftRace, ftNow>>

\* response.json() rejects: the body is not JSON
FtJsonFails ==
    /\ ftPc = "running"
    /\ ftMicro = <<>>
    /\ ftFetch = "responded"
    /\ ftFetch' = "done"
    /\ FtSettleInput("fetch", Settled("rejected", "SyntaxError"))
    /\ UNCHANGED <<ftPc, ftTimeout, ftTimer, ftRace, ftNow>>

\* the fetch rejects
FtFetchFails ==
    \E error \in FtErrors :
        /\ ftPc = "running"
        /\ ftMicro = <<>>
        /\ ftFetch = "pending"
        /\ ftFetch' = "done"
        /\ FtSettleInput("fetch", Settled("rejected", error))
        /\ UNCHANGED <<ftPc, ftTimeout, ftTimer, ftRace, ftNow>>

\* the timer fires: reject('Operation timed out')
FtTimerFires ==
    /\ ftPc = "running"
    /\ ftMicro = <<>>
    /\ ftTimer
    /\ ftTimer' = FALSE
    /\ ftNow' = ftTimeout
    /\ FtSettleInput("timeout", Settled("rejected", "Operation timed out"))
    /\ UNCHANGED <<ftPc, ftTimeout, ftFetch, ftRace>>

\* the reaction Promise.race attached to an input
FtRaceReaction ==
    /\ ftPc = "running"
    /\ ftMicro # <<>>
    /\ ftRace' = FtRaceSettle(ftRace, ftInput[Head(ftMicro)])
    /\ ftMicro' = Tail(ftMicro)
    /\ UNCHANGED <<ftPc, ftTimeout, ftFetch, ftTimer, ftInput, ftNow, ftOrder>>

\* C11: the promise of fetchWithTimeout settles once, with the outcome of
\* the input that settles first: the fetch (fulfilled with the parsed JSON
\* or rejected with its error) or the timeout (rejected with 'Operation
\* timed out' after timeout ms); the later event never changes it.
C11_FirstSettledWins ==
    ftPc = "running" =>
        /\ ftRace.state # "pending" =>
              /\ ftOrder # <<>>
              /\ ftRace = ftInput[ftOrder[1]]
        /\ ftRace.state = "pending" /\ ftMicro = <<>> => ftOrder = <<>>
        /\ ftInput["timeout"].state # "pending" =>
              /\ ftInput["timeout"] = Settled("rejected", "Operation timed out")
              /\ ftNow = ftTimeout
        /\ ftInput["fetch"].state = "fulfilled" => ftInput["fetch"].value \in FtJson
        /\ ftInput["fetch"].state = "rejected" =>
              ftInput["fetch"].value \in FtErrors \cup {"SyntaxError"}

\* the timeout came first and the fetch fulfilled afterwards: the promise
\* stays rejected
C11_Witness ==
    /\ ftOrder = <<"timeout", "fetch">>
    /\ ftMicro = <<>>
    /\ ftInput["fetch"] = Settled("fulfilled", "user 1")
    /\ ftRace = Settled("rejected", "Operation timed out")

(***************************************************************************)
(* src/unnamed/part_010 lines 91-102 and                                   *)
(* src/class-and-inhertances-overriding.md lines 167-178: class Measurement*)
(* A string is the sequence of its characters. A finite number of this     *)
(* snippet is counted in tenths, so that Fin(235) is 23.5; the strings     *)
(* drawn as inputs have at most one digit after the point and no exponent. *)
(***************************************************************************)
Digits == <<"0", "1", "2", "3", "4", "5", "6", "7", "8", "9">>

IsDigit(c) == \E i \in 1..Len(Digits) : Digits[i] = c
DigitValue(c) == (CHOOSE i \in 1..Len(Digits) : Digits[i] = c) - 1

\* the value of a sequence of digits
RECURSIVE DigitsValue(_)
DigitsValue(s) ==
    IF s = <<>> THEN 0
    ELSE DigitsValue(SubSeq(s, 1, Len(s) - 1)) * 10 + DigitValue(s[Len(s)])

\* white space is stripped from both ends
RECURSIVE TrimString(_)
TrimString(s) ==
    IF s # <<>> /\ Head(s) = " " THEN TrimString(Tail(s))
    ELSE IF s # <<>> /\ s[Len(s)] = " " THEN TrimString(SubSeq(s, 1, Len(s) - 1))
    ELSE s

\* an unsigned numeric literal: Infinity, or digits with at most one point
\* and at least one digit; anything else is NaN
UnsignedToNumber(s) ==
    LET points == {i \in 1..Len(s) : s[i] = "."}
        point == IF points = {} THEN Len(s) + 1 ELSE CHOOSE i \in points : TRUE
        whole == SubSeq(s, 1, point - 1)
        fraction == SubSeq(s, point + 1, Len(s))
    IN  IF s = <<"I", "n", "f", "i", "n", "i", "t", "y">> THEN PosInf
        ELSE IF /\ Cardinality(points) <= 1
                /\ Len(whole) + Len(fraction) > 0
                /\ \A i \in 1..Len(s) : i \in points \/ IsDigit(s[i])
        THEN Fin(DigitsValue(whole) * 10 +
                 (IF fraction = <<>> THEN 0 ELSE DigitValue(fraction[1])))
        ELSE NaN

\* Number(s) on a string: trimmed, "" is 0, an optional sign, a literal
CharsToNumber(s) ==
    LET t == TrimString(s)
    IN  IF t = <<>> THEN Fin(0)
        ELSE IF Head(t) = "-" THEN NumNeg(UnsignedToNumber(Tail(t)))
        ELSE IF Head(t) = "+" THEN UnsignedToNumber(Tail(t))
        ELSE UnsignedToNumber(t)

MsNumber(n) == [t |-> "number", n |-> n, s |-> <<>>, b |-> FALSE]
MsString(s) == [t |-> "string", n |-> NaN, s |-> s, b |-> FALSE]
MsBoolean(b) == [t |-> "boolean", n |-> NaN, s |-> <<>>, b |-> b]

\* Number(input) for input : number | string | boolean
MsToNumber(input) ==
    CASE input.t = "number" -> input.n
      [] input.t = "string" -> CharsToNumber(input.s)
      [] input.t = "boolean" -> IF input.b THEN Fin(10) ELSE Fin(0)

\* a plausible slip: the conversion is stored unchecked
MeasurementSetUnchecked(input) == MsToNumber(input)

\* set value(input) / set update(value): the value stored
MeasurementSet(input) ==
    LET num == MsToNumber(input)
    IN  IF IsFinite(num) THEN num ELSE Fin(0)

MsStrings ==
    {<<"2", "3", ".", "5">>, <<"i", "n", "v", "a", "l", "i", "d">>, <<>>,
     <<"4", "2">>, <<"-", "7">>, <<" ", "5", " ">>, <<"+", "3">>,
     <<"I", "n", "f", "i", "n", "i", "t", "y">>,
     <<"-", "I", "n", "f", "i", "n", "i", "t", "y">>,
     <<"1", ".", "5", ".", "2">>, <<".", "5">>, <<"5", ".">>, <<"-">>, <<".">>,
     <<"2", "3", ",", "5">>}

MsInputs ==
    {MsNumber(n) : n \in {Fin(420), Fin(-15), Fin(0), NaN, PosInf, NegInf}}
    \cup {MsString(s) : s \in MsStrings}
    \cup {MsBoolean(b) : b \in BOOLEAN}

MsInit ==
    /\ msValue = Fin(0)
    /\ msLast = [op |-> "new", input |-> MsNumber(Fin(0)), threw |-> FALSE, count |-> 0]

MsIdle ==
    /\ msValue = Fin(0)
    /\ msLast = [op |-> "idle", input |-> MsNumber(Fin(0)), threw |-> FALSE, count |-> 0]

\* m.value = input
MsAssign ==
    \E input \in MsInputs :
        /\ msLast.count < MaxAssigns
        /\ msValue' = MeasurementSet(input)
        /\ msLast' = [op |-> "set", input |-> input, threw |-> FALSE,
                      count |-> msLast.count + 1]

\* console.log(m.value): the getter
MsRead ==
    /\ msLast.op # "get"
    /\ msLast' = [op |-> "get", input |-> MsNumber(msValue), threw |-> FALSE,
                  count |-> msLast.count]
    /\ UNCHANGED msValue

FuUserIds == {Fin(-1), Fin(0), Fin(1), Fin(42), Fin(99), Fin(UserIdLimit),
              Fin(999), NaN}

FuModes == {"callback", "async"}

\* { id: userId, name: `User ${userId}`, role: "admin" }
FuRecord(userId) == [id |-> userId, name |-> <<"User ", userId>>, role |-> "admin"]

FuEvent(e, error, data) == [e |-> e, error |-> error, data |-> data]

\* a plausible slip: the upper limit is taken as inclusive
FetchUserDataResultInclusive(userId) ==
    IF NumGt(userId, Fin(0)) /\ NumLe(userId, Fin(UserIdLimit))
    THEN FuEvent("callback", <<>>, <<FuRecord(userId)>>)
    ELSE FuEvent("callback", <<"User not found">>, <<>>)

\* the body of the timer callback: the arguments the callback is called with
FetchUserDataResult(userId) ==
    IF NumGt(userId, Fin(0)) /\ NumLt(userId, Fin(UserIdLimit))
    THEN FuEvent("callback", <<>>, <<FuRecord(userId)>>)
    ELSE FuEvent("callback", <<"User not found">>, <<>>)

\* the callback fetchUserDataAsync passes: reject(new Error(error)) when
\* error is truthy, resolve(data) otherwise
FuAsyncCallback(event) ==
    IF event.error # <<>> /\ event.error # <<"">>
    THEN Settled("rejected", <<[name |-> "Error", message |-> event.error[1]]>>)
    ELSE Settled("fulfilled", event.data)

FuInit == fuCalls = <<>>
FuIdle == fuCalls = <<>>

\* fetchUserData(userId, callback), directly or from the executor of
\* fetchUserDataAsync(userId): logs, sets the timer, returns
FuCall ==
    \E userId \in FuUserIds, mode \in FuModes :
        /\ Len(fuCalls) < MaxCalls
        /\ fuCalls' = Append(fuCalls,
              [userId |-> userId, mode |-> mode,
               events |-> <<FuEvent("log", <<>>, <<userId>>),
                            FuEvent("return", <<>>, <<>>)>>,
               timer |-> TRUE, promise |-> Pending])

\* the earliest timer still pending fires and runs its callback
FuTimer ==
    \E i \in 1..Len(fuCalls) :
        /\ fuCalls[i].timer
        /\ \A j \in 1..(i - 1) : ~fuCalls[j].timer
        /\ LET call == fuCalls[i]
               event == FetchUserDataResult(call.userId)
           IN  fuCalls' = [fuCalls EXCEPT ![i] =
                   [call EXCEPT !.events = Append(call.events, event),
                                !.timer = FALSE,
                                !.promise = IF call.mode = "async"
                                            THEN FuAsyncCallback(event)
                                            ELSE call.promise]]

FuCallbacks(call) == {k \in 1..Len(call.events) : call.events[k].e = "callback"}

\* C13: fetchUserData invokes its callback exactly once, after the call
\* has logged 'Fetching data' and returned: with error null and the record
\* { id, name: 'User <id>', role: 'admin' } exactly when 0 < userId < 100,
\* and otherwise with error 'User not found' and no data;
\* fetchUserDataAsync fulfils with the record in the first case and rejects
\* in the second.
C13_FetchUserData ==
    \A i \in 1..Len(fuCalls) :
        LET call == fuCalls[i]
            id == call.userId
            found == id.k = "fin" /\ 0 < id.v /\ id.v < 100
        IN  /\ Len(call.events) >= 2
            /\ call.events[1].e = "log"
            /\ call.events[2].e = "return"
            /\ call.timer => FuCallbacks(call) = {} /\ call.promise = Pending
            /\ ~call.timer =>
                  /\ FuCallbacks(call) = {3}
                  /\ found =>
                        /\ call.events[3].error = <<>>
                        /\ call.events[3].data =
                              <<[id |-> id, name |-> <<"User ", id>>, role |-> "admin"]>>
                  /\ ~found =>
                        /\ call.events[3].error = <<"User not found">>
                        /\ call.events[3].data = <<>>
                  /\ call.mode = "callback" => call.promise = Pending
                  /\ call.mode = "async" /\ found =>
                        /\ call.promise.state = "fulfilled"
                        /\ call.promise.value = call.events[3].data
                  /\ call.mode = "async" /\ ~found =>
                        call.promise.state = "rejected"

\* the two calls of the demo, 42 and 999, have both called back
C13_Witness ==
    /\ Len(fuCalls) = 2
    /\ fuCalls[1].userId = Fin(42) /\ ~fuCalls[1].timer
    /\ fuCalls[2].userId = Fin(999) /\ ~fuCalls[2].timer
    /\ fuCalls[2].mode = "async"

(***************************************************************************)
(* src/callback_function.md lines 246-252: divideSafely                    *)
(* A quotient of finite numbers is kept exact, as a fraction in lowest     *)
(* terms with a positive denominator; the sign of a zero is not kept.      *)
(***************************************************************************)
Abs(n) == IF n < 0 THEN 0 - n ELSE n

RECURSIVE Gcd(_, _)
Gcd(m, n) == IF n = 0 THEN m ELSE Gcd(n, m % n)

Quotient(k, n, d) == [k |-> k, n |-> n, d |-> d]

Sign(x) == IF x.v < 0 THEN -1 ELSE 1

\* a / b on numbers
NumDiv(a, b) ==
    IF a.k = "nan" \/ b.k = "nan" THEN Quotient("nan", 0, 1)
    ELSE IF a.k = "inf" /\ b.k = "inf" THEN Quotient("nan", 0, 1)
    ELSE IF a.k = "inf" THEN Quotient("inf", Sign(a) * Sign(b), 1)
    ELSE IF b.k = "inf" THEN Quotient("fin", 0, 1)
    ELSE IF b.v = 0
    THEN (IF a.v = 0 THEN Quotient("nan", 0, 1) ELSE Quotient("inf", Sign(a), 1))
    ELSE LET g == Gcd(Abs(a.v), Abs(b.v))
         IN  Quotient("fin", (Sign(b) * a.v) \div g, Abs(b.v) \div g)

\* b === 0
IsZero(b) == b.k = "fin" /\ b.v = 0

DvCallback(error, result) == [error |-> error, result |-> result]

DvError == [name |-> "Error", message |-> "Division by zero"]

\* a plausible slip: the dividend is tested instead of the divisor
divideSafelyTestsDividend(a, b) ==
    IF IsZero(a)
    THEN <<DvCallback(<<DvError>>, <<>>)>>
    ELSE <<DvCallback(<<>>, <<NumDiv(a, b)>>)>>

\* divideSafely(a, b, callback): the invocations of callback it makes
divideSafely(a, b) ==
    IF IsZero(b)
    THEN <<DvCallback(<<DvError>>, <<>>)>>
    ELSE <<DvCallback(<<>>, <<NumDiv(a, b)>>)>>

DvOperands ==
    {Fin(v) : v \in (0 - MaxOperand)..MaxOperand} \cup {Fin(10), NaN, PosInf, NegInf}

DvInit == dvCall = [op |-> "none", a |-> Fin(0), b |-> Fin(0), callbacks |-> <<>>]
DvIdle == dvCall = [op |-> "idle", a |-> Fin(0), b |-> Fin(0), callbacks |-> <<>>]

DvCall ==
    \E a \in DvOperands, b \in DvOperands :
        dvCall' = [op |-> "divideSafely", a |-> a, b |-> b,
                   callbacks |-> divideSafely(a, b)]

\* C14: divideSafely(a, b, callback) calls the callback exactly once, with
\* an Error 'Division by zero' and no result exactly when b === 0, and
\* otherwise with error null and result a / b (10, 2 gives 5).
C14_DivideSafely ==
    dvCall.op = "divideSafely" =>
        LET a == dvCall.a
            b == dvCall.b
            call == dvCall.callbacks[1]
        IN  /\ Len(dvCall.callbacks) = 1
            /\ (b.k = "fin" /\ b.v = 0) <=>
                  (call.error # <<>> /\ call.error[1].message = "Division by zero")
            /\ call.error # <<>> => call.result = <<>>
            /\ call.error = <<>> =>
                  /\ Len(call.result) = 1
                  /\ a.k = "fin" /\ b.k = "fin" =>
                        /\ call.result[1].k = "fin"
                        /\ call.result[1].d > 0
                        /\ call.result[1].n * b.v = a.v * call.result[1].d
                        /\ Gcd(Abs(call.result[1].n), call.result[1].d) = 1
                  /\ a.k = "nan" \/ b.k = "nan" => call.result[1].k = "nan"
                  /\ a.k = "fin" /\ b.k = "inf" => call.result[1] = Quotient("fin", 0, 1)
                  /\ a.k = "inf" /\ b.k = "fin" =>
                        /\ call.result[1].k = "inf"
                        /\ (call.result[1].n > 0) <=> ((a.v > 0) <=> (b.v > 0))
                  /\ a.k = "inf" /\ b.k = "inf" => call.result[1].k = "nan"
                  /\ a = Fin(10) /\ b = Fin(2) => call.result[1] = Quotient("fin", 5, 1)

\* divideSafely(10, 2, ...) has called back with 5
C14_Witness ==
    /\ dvCall.op = "divideSafely"
    /\ dvCall.a = Fin(10) /\ dvCall.b = Fin(2)
    /\ dvCall.callbacks = <<DvCallback(<<>>, <<Quotient("fin", 5, 1)>>)>>

(***************************************************************************)
(* src/unnamed/part_008 lines 6-21: examplePromise with .then and .catch   *)
(***************************************************************************)
ExPromises == {"example", "then", "catch"}

ExResolved == "The Promise resolved successfully"
ExFailed == "The promises failed to resolve.......! try to handle the error!"

ExInit ==
    /\ exPc = "script"
    /\ exRandom = 0
    /\ exPromise = [p \in ExPromises |-> Pending]
    /\ exMicro = <<>>
    /\ exRuns = [then |-> 0, catch |-> 0]
    /\ exLog = <<>>

ExIdle ==
    /\ exPc = "idle"
    /\ exRandom = 0
    /\ exPromise = [p \in ExPromises |-> Pending]
    /\ exMicro = <<>>
    /\ exRuns = [then |-> 0, catch |-> 0]
    /\ exLog = <<>>

\* a plausible slip: .then without a rejection handler fulfils its promise
ExThenSettleSwallows(promise, micro) ==
    Settle(promise, micro, "then", "fulfilled", <<>>)

\* how the reaction of examplePromise settles the promise .then returned:
\* with the handler's return value, or with the rejection passed through
ExThenSettle(promise, micro) ==
    IF promise["example"].state = "fulfilled"
    THEN Settle(promise, micro, "then", "fulfilled", <<>>)
    ELSE Settle(promise, micro, "then", "rejected", promise["example"].value)

\* lines 6-21, run to completion: the executor settles examplePromise on
\* the random number, then .then and .catch subscribe
ExScript ==
    \E k \in 0..(RandomGrain - 1) :
        LET s == IF 2 * k > RandomGrain       \* random_num > 0.5
                 THEN Settle(exPromise, exMicro, "example", "fulfilled", <<ExResolved>>)
                 ELSE Settle(exPromise, exMicro, "example", "rejected", <<ExFailed>>)
        IN  /\ exPc = "script"
            /\ exPc' = "loop"
            /\ exRandom' = k
            /\ exPromise' = s.promise
            /\ exMicro' = s.micro
            /\ UNCHANGED <<exRuns, exLog>>

\* the reaction of examplePromise: .then((result) => console.log(result))
ExThenReaction ==
    /\ exPc = "loop"
    /\ exMicro # <<>>
    /\ Head(exMicro) = "example"
    /\ LET s == ExThenSettle(exPromise, Tail(exMicro))
       IN  /\ exPromise' = s.promise
           /\ exMicro' = s.micro
    /\ IF exPromise["example"].state = "fulfilled"
       THEN /\ exRuns' = [exRuns EXCEPT !.then = @ + 1]
            /\ exLog' = Append(exLog, <<"log", exPromise["example"].value[1]>>)
       ELSE UNCHANGED <<exRuns, exLog>>
    /\ UNCHANGED <<exPc, exRandom>>

\* the reaction of the promise of .then:
\* .catch((error) => console.error('Error', error.message))
ExCatchReaction ==
    /\ exPc = "loop"
    /\ exMicro # <<>>
    /\ Head(exMicro) = "then"
    /\ LET s == Settle(exPromise, Tail(exMicro), "catch", "fulfilled", <<>>)
       IN  /\ exPromise' = s.promise
           /\ exMicro' = s.micro
    /\ IF exPromise["then"].state = "rejected"
       THEN /\ exRuns' = [exRuns EXCEPT !.catch = @ + 1]
            /\ exLog' = Append(exLog, <<"error", exPromise["then"].value[1]>>)
       ELSE UNCHANGED <<exRuns, exLog>>
    /\ UNCHANGED <<exPc, exRandom>>

ExDone == exPc = "loop" /\ exMicro = <<>>

\* C15: examplePromise is fulfilled exactly when the random number is
\* greater than 0.5 and is rejected otherwise; the .then handler runs on
\* fulfilment and the .catch handler on rejection, so exactly one of the
\* two handlers runs, exactly once.
C15_ExamplePromise ==
    /\ exPc = "loop" =>
          /\ exPromise["example"].state = "fulfilled" <=> 2 * exRandom > RandomGrain
          /\ exPromise["example"].state = "rejected" <=> 2 * exRandom <= RandomGrain
    /\ exRuns.then + exRuns.catch <= 1
    /\ exRuns.then = 1 => exPromise["example"].state = "fulfilled"
    /\ exRuns.catch = 1 => exPromise["example"].state = "rejected"
    /\ ExDone =>
          /\ exRuns.then + exRuns.catch = 1
          /\ Len(exLog) = 1
          /\ exRuns.then = 1 => exLog[1] = <<"log", ExResolved>>
          /\ exRuns.catch = 1 => exLog[1] = <<"error", ExFailed>>

\* the promise was rejected and the .catch handler has run
C15_Witness ==
    /\ ExDone
    /\ exPromise["example"].state = "rejected"
    /\ exRuns = [then |-> 0, catch |-> 1]

(***************************************************************************)
(* src/Break-Point-browser_DevTool.md lines 215-237 (Vehicle), 247-309     *)
(* (DeliveryTruck, DeliveryDrone) and 323-360 (FleetManager and the demo)  *)
(* A string built from a template is the sequence of its parts. The        *)
(* number calculateFuelEfficiency returns is only logged and is left out.  *)
(***************************************************************************)
\* new DeliveryTruck(id, location, capacity)
DeliveryTruck(id, location, capacity) ==
    [kind |-> "DeliveryTruck", id |-> id, currentLocation |-> location,
     status |-> "available", cargoCapacity |-> capacity, currentCargo |-> Fin(0)]

\* new DeliveryDrone(id, location, maxAlt)
DeliveryDrone(id, location, maxAlt) ==
    [kind |-> "DeliveryDrone", id |-> id, currentLocation |-> location,
     status |-> "available", maxAltitude |-> maxAlt, currentAltitude |-> Fin(0)]

\* Vehicle.getStatus()
getStatus(vehicle) ==
    <<"Vehicle ", vehicle.id, " is currently ", vehicle.status, " at ",
      vehicle.currentLocation>>

\* getStatus().includes('available'): of the ids, statuses and locations
\* used here only the status 'available' contains the word
IncludesAvailable(text) == \E i \in 1..Len(text) : text[i] = "available"

\* a plausible slip: the vehicle is left in transit
moveToNoRestore(vehicle, destination) ==
    LET departed == [vehicle EXCEPT !.status = "in-transit"]
        arrived == [departed EXCEPT !.currentLocation = destination]
    IN  <<departed, arrived>>

\* a plausible slip: the location is not updated
moveToNowhere(vehicle, destination) ==
    LET departed == [vehicle EXCEPT !.status = "in-transit"]
        parked == [departed EXCEPT !.status = "available"]
    IN  <<departed, parked>>

\* DeliveryTruck.moveTo / DeliveryDrone.moveTo (the same three assignments):
\* the vehicle after each assignment
moveTo(vehicle, destination) ==
    LET departed == [vehicle EXCEPT !.status = "in-transit"]
        arrived == [departed EXCEPT !.currentLocation = destination]
        parked == [arrived EXCEPT !.status = "available"]
    IN  <<departed, arrived, parked>>

Moved(steps) == steps[Len(steps)]
Statuses(steps) == [i \in 1..Len(steps) |-> steps[i].status]

\* a plausible slip: the cargo already loaded is left out of the test
LoadCargoExceedsAlone(truck, weight) == NumGt(weight, truck.cargoCapacity)

\* if (this.currentCargo + weight > this.cargoCapacity)
LoadCargoExceeds(truck, weight) ==
    NumGt(NumAdd(truck.currentCargo, weight), truck.cargoCapacity)

\* DeliveryTruck.loadCargo(weight)
loadCargo(truck, weight) ==
    IF LoadCargoExceeds(truck, weight)
    THEN [vehicle |-> truck, threw |-> TRUE]
    ELSE [vehicle |-> [truck EXCEPT !.currentCargo = NumAdd(@, weight)],
          threw |-> FALSE]

\* DeliveryDrone.ascend(height)
ascend(drone, height) ==
    IF NumGt(NumAdd(drone.currentAltitude, height), drone.maxAltitude)
    THEN [vehicle |-> drone, threw |-> TRUE]
    ELSE [vehicle |-> [drone EXCEPT !.currentAltitude = NumAdd(@, height)],
          threw |-> FALSE]

\* FleetManager.dispatchAllTo(destination) from array index i on: the heap
\* at the end, and the references moved and skipped and the statuses
\* written, in order
RECURSIVE dispatchAllTo(_, _, _, _)
dispatchAllTo(heap, fleet, destination, i) ==
    IF i > Len(fleet)
    THEN [heap |-> heap, moved |-> <<>>, skipped |-> <<>>, statuses |-> <<>>]
    ELSE LET ref == fleet[i]
         IN  IF IncludesAvailable(getStatus(heap[ref]))
             THEN LET steps == moveTo(heap[ref], destination)
                      rest == dispatchAllTo([heap EXCEPT ![ref] = Moved(steps)],
                                            fleet, destination, i + 1)
                  IN  [rest EXCEPT !.moved = <<ref>> \o @,
                                   !.statuses = Statuses(steps) \o @]
             ELSE LET rest == dispatchAllTo(heap, fleet, destination, i + 1)
                  IN  [rest EXCEPT !.skipped = <<ref>> \o @]

\* FleetManager.generateFleetReport(): the lines joined by '\n'
generateFleetReport(heap, fleet) ==
    [i \in 1..Len(fleet) |-> getStatus(heap[fleet[i]])]

TruckLocations == {"Warehouse A"}
DroneLocations == {"Distribution Center"}
FlDestinations == {"Customer Location 123"}
FlWeights == {Fin(3000)}
FlHeights == {Fin(300)}

FlDid(op, destination, moved, skipped, statuses, report, threw) ==
    [op |-> op, destination |-> destination, moved |-> moved,
     skipped |-> skipped, statuses |-> statuses, report |-> report,
     threw |-> threw]

FlRefs == 1..Len(flHeap)

\* const manager = new FleetManager()
FlInit ==
    /\ flHeap = <<>>
    /\ flFleet = <<>>
    /\ flAdded = <<>>
    /\ flLast = FlDid("new FleetManager", "", <<>>, <<>>, <<>>, <<>>, FALSE)

FlIdle ==
    /\ flHeap = <<>>
    /\ flFleet = <<>>
    /\ flAdded = <<>>
    /\ flLast = FlDid("idle", "", <<>>, <<>>, <<>>, <<>>, FALSE)

FlNewTruck ==
    \E location \in TruckLocations :
        /\ Len(flHeap) < MaxVehicles
        /\ flHeap' = Append(flHeap,
                            DeliveryTruck("TRUCK-001", location, Fin(TruckCapacity)))
        /\ flLast' = FlDid("new DeliveryTruck", "", <<>>, <<>>, <<>>, <<>>, FALSE)
        /\ UNCHANGED <<flFleet, flAdded>>

FlNewDrone ==
    \E location \in DroneLocations :
        /\ Len(flHeap) < MaxVehicles
        /\ flHeap' = Append(flHeap,
                            DeliveryDrone("DRONE-001", location, Fin(DroneMaxAltitude)))
        /\ flLast' = FlDid("new DeliveryDrone", "", <<>>, <<>>, <<>>, <<>>, FALSE)
        /\ UNCHANGED <<flFleet, flAdded>>

\* manager.addVehicle(vehicle): this.vehicles.push(vehicle)
FlAddVehicle ==
    \E ref \in FlRefs :
        /\ Len(flFleet) < MaxVehicles
        /\ flFleet' = Append(flFleet, ref)
        /\ flAdded' = Append(flAdded, ref)
        /\ flLast' = FlDid("addVehicle", "", <<>>, <<>>, <<>>, <<>>, FALSE)
        /\ UNCHANGED flHeap

\* manager.dispatchAllTo(destination)
FlDispatchAllTo ==
    \E destination \in FlDestinations :
        LET done == dispatchAllTo(flHeap, flFleet, destination, 1)
        IN  /\ flHeap' = done.heap
            /\ flLast' = FlDid("dispatchAllTo", destination, done.moved,
                               done.skipped, done.statuses, <<>>, FALSE)
            /\ UNCHANGED <<flFleet, flAdded>>

\* manager.generateFleetReport()
FlGenerateFleetReport ==
    /\ flLast' = FlDid("generateFleetReport", "", <<>>, <<>>, <<>>,
                       generateFleetReport(flHeap, flFleet), FALSE)
    /\ UNCHANGED <<flHeap, flFleet, flAdded>>

\* vehicle.moveTo(destination), called directly
FlMoveTo ==
    \E ref \in FlRefs, destination \in FlDestinations :
        LET steps == moveTo(flHeap[ref], destination)
        IN  /\ flHeap' = [flHeap EXCEPT ![ref] = Moved(steps)]
            /\ flLast' = FlDid("moveTo", destination, <<ref>>, <<>>,
                               Statuses(steps), <<>>, FALSE)
            /\ UNCHANGED <<flFleet, flAdded>>

\* truck.loadCargo(weight)
FlLoadCargo ==
    \E ref \in FlRefs, weight \in FlWeights :
        /\ flHeap[ref].kind = "DeliveryTruck"
        /\ LET done == loadCargo(flHeap[ref], weight)
           IN  /\ flHeap' = [flHeap EXCEPT ![ref] = done.vehicle]
               /\ flLast' = FlDid("loadCargo", "", <<>>, <<>>, <<>>, <<>>, done.threw)
        /\ UNCHANGED <<flFleet, flAdded>>

\* drone.ascend(height)
FlAscend ==
    \E ref \in FlRefs, height \in FlHeights :
        /\ flHeap[ref].kind = "DeliveryDrone"
        /\ LET done == ascend(flHeap[ref], height)
           IN  /\ flHeap' = [flHeap EXCEPT ![ref] = done.vehicle]
               /\ flLast' = FlDid("ascend", "", <<>>, <<>>, <<>>, <<>>, done.threw)
        /\ UNCHANGED <<flFleet, flAdded>>

FleetDispatched ==
    flLast.op = "dispatchAllTo" =>
        /\ \A i \in 1..Len(flAdded) :
              /\ flHeap[flAdded[i]].currentLocation = flLast.destination
              /\ flHeap[flAdded[i]].status = "available"
        /\ flLast.moved = flAdded

FleetReported ==
    flLast.op = "generateFleetReport" =>
        /\ Len(flLast.report) = Len(flAdded)
        /\ \A i \in 1..Len(flAdded) :
              LET vehicle == flHeap[flAdded[i]]
              IN  flLast.report[i] = <<"Vehicle ", vehicle.id, " is currently ",
                                       vehicle.status, " at ", vehicle.currentLocation>>

\* C18: after dispatchAllTo(d) every vehicle of the fleet is at d with
\* status 'available'; the vehicles are moved in the order in which they
\* were added; generateFleetReport lists them in that order and changes no
\* vehicle.
C18_DispatchAndReport ==
    /\ [](FleetDispatched /\ FleetReported)
    /\ [][flLast'.op = "generateFleetReport" =>
              /\ flHeap' = flHeap
              /\ flFleet' = flFleet]_vars

\* the demo: a truck and a drone, added in that order, dispatched to the
\* customer
C18_Witness ==
    /\ flLast.op = "dispatchAllTo"
    /\ flLast.destination = "Customer Location 123"
    /\ flLast.moved = <<1, 2>>
    /\ flHeap[1].kind = "DeliveryTruck" /\ flHeap[2].kind = "DeliveryDrone"
    /\ flHeap[1].currentLocation = "Customer Location 123"
    /\ flHeap[2].currentLocation = "Customer Location 123"

\* C19: between operations every Vehicle has status 'available': moveTo
\* writes 'in-transit' and then 'available' before it returns, no operation
\* writes 'maintenance', and so dispatchAllTo never skips a vehicle.
C19_AlwaysAvailable ==
    /\ \A ref \in FlRefs : flHeap[ref].status = "available"
    /\ \A i \in 1..Len(flLast.statuses) :
          flLast.statuses[i] \in {"in-transit", "available"}
    /\ flLast.op \in {"moveTo", "dispatchAllTo"} =>
          /\ Len(flLast.statuses) = 3 * Len(flLast.moved)
          /\ \A j \in 1..Len(flLast.moved) :
                /\ flLast.statuses[3 * j - 2] = "in-transit"
                /\ flLast.statuses[3 * j] = "available"
    /\ flLast.op \notin {"moveTo", "dispatchAllTo"} => flLast.statuses = <<>>
    /\ flLast.skipped = <<>>
    /\ flLast.op = "dispatchAllTo" => Len(flLast.moved) = Len(flFleet)

\* a vehicle added twice was moved twice by one dispatch: the second test
\* found it available again
C19_Witness ==
    /\ flLast.op = "dispatchAllTo"
    /\ Len(flLast.moved) = 2
    /\ flLast.moved[1] = flLast.moved[2]
    /\ flLast.skipped = <<>>

(***************************************************************************)
(* src/Break-Point-browser_DevTool.md lines 247-279: one DeliveryTruck and *)
(* its loadCargo, for any capacity and any sequence of weights             *)
(***************************************************************************)
TkCapacities == {Fin(-1), Fin(0), Fin(2), PosInf}
TkWeights == {Fin(-1), Fin(1), Fin(2), Fin(3), NaN, PosInf, NegInf}

TkDid(op, weight, before, threw) ==
    [op |-> op, weight |-> weight, before |-> before, threw |-> threw]

\* new DeliveryTruck('TRUCK-001', 'Warehouse A', capacity)
TkInit ==
    /\ tkTruck \in {DeliveryTruck("TRUCK-001", "Warehouse A", capacity) :
                        capacity \in TkCapacities}
    /\ tkLast = TkDid("new DeliveryTruck", Fin(0), Fin(0), FALSE)
    /\ tkLoads = 0

TkIdle ==
    /\ tkTruck = DeliveryTruck("TRUCK-001", "Warehouse A", Fin(0))
    /\ tkLast = TkDid("idle", Fin(0), Fin(0), FALSE)
    /\ tkLoads = 0

\* truck.loadCargo(weight)
TkLoadCargo ==
    \E weight \in TkWeights :
        LET done == loadCargo(tkTruck, weight)
        IN  /\ tkLoads < MaxLoads
            /\ tkTruck' = done.vehicle
            /\ tkLast' = TkDid("loadCargo", weight, tkTruck.currentCargo, done.threw)
            /\ tkLoads' = tkLoads + 1

\* truck.moveTo(destination)
TkMoveTo ==
    \E destination \in FlDestinations :
        /\ tkTruck' = Moved(moveTo(tkTruck, destination))
        /\ tkLast' = TkDid("moveTo", Fin(0), tkTruck.currentCargo, FALSE)
        /\ UNCHANGED tkLoads

\* C20: for a DeliveryTruck created with cargoCapacity >= 0, currentCargo
\* never exceeds cargoCapacity after any sequence of loadCargo calls: a call
\* that would exceed the capacity throws and leaves currentCargo unchanged,
\* every other call adds exactly weight; no lower bound is enforced, so a
\* negative weight is accepted.
C20_CargoWithinCapacity ==
    LET capacity == tkTruck.cargoCapacity
        cargo == tkTruck.currentCargo
        before == tkLast.before
        weight == tkLast.weight
    IN  NumLe(Fin(0), capacity) =>
            /\ ~NumGt(cargo, capacity)
            /\ tkLast.op = "loadCargo" =>
                  /\ tkLast.threw <=> NumGt(NumAdd(before, weight), capacity)
                  /\ tkLast.threw => cargo = before
                  /\ ~tkLast.threw => cargo = NumAdd(before, weight)
                  /\ IsFinite(before) /\ IsFinite(weight) /\ IsFinite(capacity) =>
                        /\ tkLast.threw <=> before.v + weight.v > capacity.v
                        /\ ~tkLast.threw => cargo = Fin(before.v + weight.v)
                  /\ IsFinite(before) /\ IsFinite(weight) /\ weight.v < 0 =>
                        /\ ~tkLast.threw
                        /\ cargo = Fin(before.v + weight.v)
            /\ tkLast.op = "moveTo" => cargo = before

\* a negative weight made currentCargo negative, and the next call, which
\* would have exceeded the capacity, threw and left it there
C20_Witness ==
    /\ NumLe(Fin(0), tkTruck.cargoCapacity)
    /\ tkLast.op = "loadCargo"
    /\ tkLast.threw
    /\ IsFinite(tkTruck.currentCargo)
    /\ tkTruck.currentCargo.v < 0

(***************************************************************************)
(* src/visibility-modifiers-in-typeScript.md lines 184-198: the singleton  *)
(* class Configuration. The constructor is private, so getInstance is the  *)
(* only place that constructs; one thread runs each call to completion.    *)
(***************************************************************************)
CfHolders == {"config", "second", "third"}

\* new Configuration()
NewConfiguration == [class |-> "Configuration"]

\* a plausible slip: the test is dropped, every call constructs
ConfigurationMissingAlways(instance) == TRUE

\* !Configuration.instance: undefined is falsy, an object is truthy
ConfigurationMissing(instance) == instance = <<>>

\* Configuration.getInstance(): the static field and the heap on return,
\* and the reference returned
getInstance(instance, heap) ==
    IF ConfigurationMissing(instance)
    THEN [instance |-> <<Len(heap) + 1>>,
          heap |-> Append(heap, NewConfiguration),
          returned |-> Len(heap) + 1,
          constructed |-> TRUE]
    ELSE [instance |-> instance, heap |-> heap, returned |-> instance[1],
          constructed |-> FALSE]

CfInit ==
    /\ cfInstance = <<>>
    /\ cfHeap = <<>>
    /\ cfHolders = [h \in CfHolders |-> <<>>]
    /\ cfCalls = <<>>

CfIdle ==
    /\ cfInstance = <<>>
    /\ cfHeap = <<>>
    /\ cfHolders = [h \in CfHolders |-> <<>>]
    /\ cfCalls = <<>>

\* const holder = Configuration.getInstance()
CfGetInstance ==
    \E holder \in CfHolders :
        LET done == getInstance(cfInstance, cfHeap)
        IN  /\ Len(cfCalls) < MaxGetInstance
            /\ cfInstance' = done.instance
            /\ cfHeap' = done.heap
            /\ cfHolders' = [cfHolders EXCEPT ![holder] = <<done.returned>>]
            /\ cfCalls' = Append(cfCalls, [holder |-> holder,
                                           returned |-> done.returned,
                                           constructed |-> done.constructed])

ConfigurationSingle ==
    /\ Len(cfHeap) <= 1
    /\ cfCalls = <<>> => cfInstance = <<>> /\ cfHeap = <<>>
    /\ cfCalls # <<>> => cfInstance = <<1>> /\ Len(cfHeap) = 1
    /\ \A i \in 1..Len(cfCalls) :
          /\ cfCalls[i].returned = cfCalls[1].returned
          /\ cfCalls[i].constructed <=> i = 1
    /\ \A h \in CfHolders : cfHolders[h] \in {<<>>, cfInstance}

\* C21: Configuration.getInstance() returns the same object on every call:
\* at most one Configuration is ever constructed, on the first call, and
\* the stored instance is never replaced afterwards.
C21_Singleton ==
    /\ []ConfigurationSingle
    /\ [][cfInstance # <<>> => cfInstance' = cfInstance /\ cfHeap' = cfHeap]_vars

\* three calls from three variables hold the one object
C21_Witness ==
    /\ Len(cfCalls) >= 3
    /\ \A h \in CfHolders : cfHolders[h] = <<1>>
    /\ Len(cfHeap) = 1

(***************************************************************************)
(* One specification per snippet: its own Init and Next, the variables of  *)
(* the other snippets idle.                                                *)
(***************************************************************************)
OthersIdle(snippet) ==
    /\ IF snippet # "pad" THEN PadIdle ELSE TRUE
    /\ IF snippet # "bank" THEN BankIdle ELSE TRUE
    /\ IF snippet # "stack" THEN StackIdle ELSE TRUE
    /\ IF snippet # "form" THEN FormIdle ELSE TRUE
    /\ IF snippet # "store" THEN StoreIdle ELSE TRUE
    /\ IF snippet # "perm" THEN PermIdle ELSE TRUE
    /\ IF snippet # "all" THEN PaIdle ELSE TRUE
    /\ IF snippet # "retry" THEN FrIdle ELSE TRUE
    /\ IF snippet # "sequential" THEN SqIdle ELSE TRUE
    /\ IF snippet # "configuration" THEN CfIdle ELSE TRUE
    /\ IF snippet # "truck" THEN TkIdle ELSE TRUE
    /\ IF snippet # "fleet" THEN FlIdle ELSE TRUE
    /\ IF snippet # "example" THEN ExIdle ELSE TRUE
    /\ IF snippet # "divide" THEN DvIdle ELSE TRUE
    /\ IF snippet # "fetchUser" THEN FuIdle ELSE TRUE
    /\ IF snippet # "measurement" THEN MsIdle ELSE TRUE
    /\ IF snippet # "timeout" THEN FtIdle ELSE TRUE

OthersUnchanged(snippet) ==
    /\ IF snippet # "pad" THEN UNCHANGED padVars ELSE TRUE
    /\ IF snippet # "bank" THEN UNCHANGED bankVars ELSE TRUE
    /\ IF snippet # "stack" THEN UNCHANGED stackVars ELSE TRUE
    /\ IF snippet # "form" THEN UNCHANGED formVars ELSE TRUE
    /\ IF snippet # "store" THEN UNCHANGED storeVars ELSE TRUE
    /\ IF snippet # "perm" THEN UNCHANGED permVars ELSE TRUE
    /\ IF snippet # "all" THEN UNCHANGED paVars ELSE TRUE
    /\ IF snippet # "retry" THEN UNCHANGED frVars ELSE TRUE
    /\ IF snippet # "sequential" THEN UNCHANGED sqVars ELSE TRUE
    /\ IF snippet # "configuration" THEN UNCHANGED cfVars ELSE TRUE
    /\ IF snippet # "truck" THEN UNCHANGED tkVars ELSE TRUE
    /\ IF snippet # "fleet" THEN UNCHANGED flVars ELSE TRUE
    /\ IF snippet # "example" THEN UNCHANGED exVars ELSE TRUE
    /\ IF snippet # "divide" THEN UNCHANGED dvVars ELSE TRUE
    /\ IF snippet # "fetchUser" THEN UNCHANGED fuVars ELSE TRUE
    /\ IF snippet # "measurement" THEN UNCHANGED msVars ELSE TRUE
    /\ IF snippet # "timeout" THEN UNCHANGED ftVars ELSE TRUE

InitPad == PadInit /\ OthersIdle("pad")
NextPad == CallCustomPadStart /\ OthersUnchanged("pad")
SpecPad == InitPad /\ [][NextPad]_vars

InitBank == BankInit /\ OthersIdle("bank")
NextBank ==
    \/ SetKigaliAccountBalance /\ OthersUnchanged("bank")
    \/ SetKigaliDeposit /\ OthersUnchanged("bank")
    \/ SetKigaliWithdraw /\ OthersUnchanged("bank")
    \/ SetAccountDeposit /\ OthersUnchanged("bank")
    \/ SetAccountWithdraw /\ OthersUnchanged("bank")
SpecBank == InitBank /\ [][NextBank]_vars

InitStack == StackInit /\ OthersIdle("stack")
NextStack ==
    \/ StackPush /\ OthersUnchanged("stack")
    \/ StackPop /\ OthersUnchanged("stack")
    \/ StackPeek /\ OthersUnchanged("stack")
    \/ StackIsEmpty /\ OthersUnchanged("stack")
SpecStack == InitStack /\ [][NextStack]_vars

InitForm == FormInit /\ OthersIdle("form")
NextForm ==
    \/ CallHandleFormChange /\ OthersUnchanged("form")
    \/ UpdateFormState /\ OthersUnchanged("form")
SpecForm == InitForm /\ [][NextForm]_vars

InitStore == StoreInit /\ OthersIdle("store")
NextStore == CallStoreUpdate /\ OthersUnchanged("store")
SpecStore == InitStore /\ [][NextStore]_vars

InitPerm == PermInit /\ OthersIdle("perm")
NextPerm ==
    \/ PermAssign /\ OthersUnchanged("perm")
    \/ PermVerify /\ OthersUnchanged("perm")
SpecPerm == InitPerm /\ [][NextPerm]_vars

InitAll == PaInit /\ OthersIdle("all")
NextAll ==
    \/ PaScript /\ OthersUnchanged("all")
    \/ PaInputReaction /\ OthersUnchanged("all")
    \/ PaThenReaction /\ OthersUnchanged("all")
    \/ PaCatchReaction /\ OthersUnchanged("all")
    \/ PaTimer /\ OthersUnchanged("all")
SpecAll == InitAll /\ [][NextAll]_vars

InitRetry == FrInit /\ OthersIdle("retry")
NextRetry ==
    \/ FrCall /\ OthersUnchanged("retry")
    \/ FrFetchFulfils /\ OthersUnchanged("retry")
    \/ FrFetchRejects /\ OthersUnchanged("retry")
    \/ FrTimerFires /\ OthersUnchanged("retry")
SpecRetry == InitRetry /\ [][NextRetry]_vars

InitSequential == SqInit /\ OthersIdle("sequential")
NextSequential ==
    \/ SqCall /\ OthersUnchanged("sequential")
    \/ SqStart /\ OthersUnchanged("sequential")
    \/ SqFulfil /\ OthersUnchanged("sequential")
    \/ SqReject /\ OthersUnchanged("sequential")
    \/ SqPassRejection /\ OthersUnchanged("sequential")
SpecSequential == InitSequential /\ [][NextSequential]_vars

InitTimeout == FtInit /\ OthersIdle("timeout")
NextTimeout ==
    \/ FtCall /\ OthersUnchanged("timeout")
    \/ FtFetchResponds /\ OthersUnchanged("timeout")
    \/ FtJsonParsed /\ OthersUnchanged("timeout")
    \/ FtJsonFails /\ OthersUnchanged("timeout")
    \/ FtFetchFails /\ OthersUnchanged("timeout")
    \/ FtTimerFires /\ OthersUnchanged("timeout")
    \/ FtRaceReaction /\ OthersUnchanged("timeout")
SpecTimeout == InitTimeout /\ [][NextTimeout]_vars

InitMeasurement == MsInit /\ OthersIdle("measurement")
NextMeasurement ==
    \/ MsAssign /\ OthersUnchanged("measurement")
    \/ MsRead /\ OthersUnchanged("measurement")
SpecMeasurement == InitMeasurement /\ [][NextMeasurement]_vars

InitFetchUser == FuInit /\ OthersIdle("fetchUser")
NextFetchUser ==
    \/ FuCall /\ OthersUnchanged("fetchUser")
    \/ FuTimer /\ OthersUnchanged("fetchUser")
SpecFetchUser == InitFetchUser /\ [][NextFetchUser]_vars

InitDivide == DvInit /\ OthersIdle("divide")
NextDivide == DvCall /\ OthersUnchanged("divide")
SpecDivide == InitDivide /\ [][NextDivide]_vars

InitExample == ExInit /\ OthersIdle("example")
NextExample ==
    \/ ExScript /\ OthersUnchanged("example")
    \/ ExThenReaction /\ OthersUnchanged("example")
    \/ ExCatchReaction /\ OthersUnchanged("example")
SpecExample == InitExample /\ [][NextExample]_vars

InitFleet == FlInit /\ OthersIdle("fleet")
NextFleet ==
    \/ FlNewTruck /\ OthersUnchanged("fleet")
    \/ FlNewDrone /\ OthersUnchanged("fleet")
    \/ FlAddVehicle /\ OthersUnchanged("fleet")
    \/ FlDispatchAllTo /\ OthersUnchanged("fleet")
    \/ FlGenerateFleetReport /\ OthersUnchanged("fleet")
    \/ FlMoveTo /\ OthersUnchanged("fleet")
    \/ FlLoadCargo /\ OthersUnchanged("fleet")
    \/ FlAscend /\ OthersUnchanged("fleet")
SpecFleet == InitFleet /\ [][NextFleet]_vars

InitTruck == TkInit /\ OthersIdle("truck")
NextTruck ==
    \/ TkLoadCargo /\ OthersUnchanged("truck")
    \/ TkMoveTo /\ OthersUnchanged("truck")
SpecTruck == InitTruck /\ [][NextTruck]_vars

InitConfiguration == CfInit /\ OthersIdle("configuration")
NextConfiguration == CfGetInstance /\ OthersUnchanged("configuration")
SpecConfiguration == InitConfiguration /\ [][NextConfiguration]_vars

\* C1: customPadStart returns the receiver unchanged when targetLength <=
\* its length; otherwise the result has length exactly targetLength, its
\* first targetLength - length characters are padString repeated end to end
\* (cut to that many characters) and the receiver follows; the pad string
\* defaults to one space; "7".customPadStart(3, "0") is "007".
C1_PadStart ==
    padPc = "returned" =>
        LET s == padIn.str
            n == padIn.targetLength
            p == padIn.padString
            k == n - Len(s)
        IN  /\ (~padIn.given => p = <<" ">>)
            /\ (n <= Len(s) => padOut = s)
            /\ (n > Len(s) =>
                  /\ Len(padOut) = n
                  /\ \A i \in 1..k : padOut[i] = p[((i - 1) % Len(p)) + 1]
                  /\ \A i \in 1..Len(s) : padOut[k + i] = s[i])
            /\ (s = <<"7">> /\ n = 3 /\ p = <<"0">> => padOut = <<"0", "0", "7">>)

\* the padding is cut in the middle of a two-character pad string
C1_Witness ==
    /\ padPc = "returned"
    /\ padIn.str = <<"7">>
    /\ padIn.targetLength = 4
    /\ padIn.padString = <<"0", " ">>
    /\ padOut = <<"0", " ", "0", "7">>

====
